---------------------------- MODULE Spec2Model ----------------------------
(***************************************************************************)
(* State-machine model of the search and ranking layer of yc_search:       *)
(* the filter predicate builder, keyword search, semantic search and its   *)
(* top-K companion, batch analytics, the cached PCA projection, the        *)
(* request parsing, the sync scripts, the scraper and the dashboard.       *)
(*                                                                         *)
(* Conventions.                                                            *)
(*  - A nullable SQL column is a sequence: <<>> is NULL, <<v>> is v.       *)
(*  - A TEXT value that the code reads character by character (a name, a   *)
(*    query, a batch label) is a sequence of one-character strings; one    *)
(*    that it only compares for equality (a tag, a stage) is a string.     *)
(*  - A JSON array column (tags, industries, regions) is the sequence of   *)
(*    its string items, which is what parseJsonArray / json_each read.     *)
(*  - A cosine score is the IEEE 754 double the code computes, every      *)
(*    operation rounded; its toFixed(4) value is an integer number of      *)
(*    ten-thousandths.                                                     *)
(*  - A SELECT without ORDER BY returns its rows in the order of a scan,   *)
(*    which is any order.                                                  *)
(***************************************************************************)
EXTENDS Integers, Sequences, FiniteSets, TLC

VARIABLES
    companies,           \* table companies: sequence of rows, row i has id i
    company_embeddings,  \* table company_embeddings: id -> <<>> or <<row>>
    now,                 \* the database clock, in whole seconds
    projectionCache,     \* snapshot-utils.ts: let projectionCache
    call,                \* the last operation: its inputs and what it returned
    dirty,               \* an embedding row was written since loadProjection last returned
    lastPoints,          \* the points of the last loadProjection, if no write followed it
    website_snapshots,   \* table website_snapshots: the rows, keyed by (company_id, source)
    sync,                \* the sync scripts that are running: their tasks and where each is
    dashboard,           \* search-dashboard.tsx: its React state and its requests in flight
    scrape               \* a call of scrapeWebsiteMarkdown: its attempt and what it did so far

\* the state outside the request handlers: the scripts, the browser, the scraper
background == <<website_snapshots, sync, dashboard, scrape>>

vars == <<companies, company_embeddings, now, projectionCache, call, dirty, lastPoints,
          background>>

(***************************************************************************)
(* Nullable values and small sequence helpers                              *)
(***************************************************************************)
NULL == <<>>

Some(v) == <<v>>

IsNull(x) == x = <<>>

Val(x) == x[1]

Range(s) == {s[i] : i \in 1..Len(s)}

Min(a, b) == IF a < b THEN a ELSE b

Max(a, b) == IF a > b THEN a ELSE b

\* Array.prototype.slice(start, end) for 0-based start <= end
Slice(s, start, end) ==
    IF start >= Len(s) THEN <<>> ELSE SubSeq(s, start + 1, Min(end, Len(s)))

RECURSIVE SelectIdx(_, _, _)
\* the positions i..n for which keep[i], ascending: Array.prototype.filter, and
\* the rows a walk over the rowid (the INTEGER PRIMARY KEY) keeps
SelectIdx(i, n, keep) ==
    IF i > n THEN <<>>
    ELSE (IF keep[i] THEN <<i>> ELSE <<>>) \o SelectIdx(i + 1, n, keep)

\* the orders in which a statement can visit a set of rows of companies.  SQL
\* leaves the order of rows open where no ORDER BY decides it, and SQLite visits
\* them by rowid or along whichever index of db/schema.ts the WHERE or the ORDER
\* BY makes it walk (idx_companies_batch, idx_companies_top_company, ...),
\* forwards or backwards: every order is possible
Scans(rows) ==
    {scan \in [1..Cardinality(rows) -> rows] :
        \A i, j \in 1..Cardinality(rows) : i # j => scan[i] # scan[j]}

\* the walk over the rowid
RowidScan == [i \in 1..Len(companies) |-> i]

\* FROM ... WHERE: the rows of a scan that pass keep, in the order of the scan
TableScan(scan, keep) ==
    LET at == SelectIdx(1, Len(scan), [k \in 1..Len(scan) |-> keep[scan[k]]])
    IN  [k \in 1..Len(at) |-> scan[at[k]]]

RECURSIVE InsertStable(_, _, _)
\* insert x after every element it does not strictly precede; before[x][y] is
\* TRUE when the comparator puts x strictly before y
InsertStable(sorted, x, before) ==
    IF sorted = <<>> THEN <<x>>
    ELSE IF before[x][Head(sorted)] THEN <<x>> \o sorted
    ELSE <<Head(sorted)>> \o InsertStable(Tail(sorted), x, before)

RECURSIVE SortStableFrom(_, _, _)
SortStableFrom(done, rest, before) ==
    IF rest = <<>> THEN done
    ELSE SortStableFrom(InsertStable(done, Head(rest), before), Tail(rest), before)

\* a stable sort of a sequence of row indices: Array.prototype.sort, and ORDER BY,
\* which leaves rows that are equal on every key in the order of the scan
SortStable(s, before) == SortStableFrom(<<>>, s, before)

(***************************************************************************)
(* Text: characters, case folding, trim, LIKE                              *)
(***************************************************************************)
\* the printable ASCII characters, from code point 32 (space) to 126 (~); the two
\* quotes, the backslash and the grave accent are spelled out
Ascii ==
    << " ", "!", "dquote", "#", "$", "%", "&", "quote", "(", ")", "*", "+", ",", "-", ".", "/",
       "0", "1", "2", "3", "4", "5", "6", "7", "8", "9", ":", ";", "<", "=", ">", "?",
       "@", "A", "B", "C", "D", "E", "F", "G", "H", "I", "J", "K", "L", "M", "N", "O",
       "P", "Q", "R", "S", "T", "U", "V", "W", "X", "Y", "Z", "[", "backslash", "]", "^", "_",
       "grave", "a", "b", "c", "d", "e", "f", "g", "h", "i", "j", "k", "l", "m", "n", "o",
       "p", "q", "r", "s", "t", "u", "v", "w", "x", "y", "z", "{", "|", "}", "~" >>

\* the ASCII white space below the space: code points 9 (tab), 10 (line feed),
\* 11 (vertical tab), 12 (form feed) and 13 (carriage return)
ControlSpaces == << "\t", "\n", "vtab", "\f", "\r" >>

Chars == Range(Ascii) \cup Range(ControlSpaces)

\* the characters String.prototype.trim removes and \s matches
WhiteSpace == Range(ControlSpaces) \cup {" "}

CharCodes ==
    [ch \in Chars |->
        IF ch \in Range(ControlSpaces)
        THEN 8 + CHOOSE i \in 1..Len(ControlSpaces) : ControlSpaces[i] = ch
        ELSE 31 + CHOOSE i \in 1..Len(Ascii) : Ascii[i] = ch]

\* code points, for BINARY collation of ORDER BY c.name
CharCode(ch) == CharCodes[ch]

IsUpper(ch) == CharCode(ch) >= 65 /\ CharCode(ch) <= 90

IsDigit(ch) == CharCode(ch) >= 48 /\ CharCode(ch) <= 57

LowerChars == [ch \in Chars |-> IF IsUpper(ch) THEN Ascii[CharCode(ch) + 32 - 31] ELSE ch]

\* String.prototype.toLowerCase / SQL LOWER on the ASCII alphabet
LowerChar(ch) == LowerChars[ch]

ToLower(text) == [i \in 1..Len(text) |-> LowerChar(text[i])]

RECURSIVE TrimStart(_)
TrimStart(text) ==
    IF text # <<>> /\ Head(text) \in WhiteSpace THEN TrimStart(Tail(text)) ELSE text

RECURSIVE TrimEnd(_)
TrimEnd(text) ==
    IF text # <<>> /\ text[Len(text)] \in WhiteSpace
    THEN TrimEnd(SubSeq(text, 1, Len(text) - 1)) ELSE text

\* String.prototype.trim
Trim(text) == TrimEnd(TrimStart(text))

RECURSIVE Like(_, _)
\* SQLite's  text LIKE pattern  with no ESCAPE: % is any run, _ is any one character
Like(text, pattern) ==
    IF pattern = <<>> THEN text = <<>>
    ELSE IF Head(pattern) = "%"
         THEN Like(text, Tail(pattern)) \/ (text # <<>> /\ Like(Tail(text), pattern))
    ELSE /\ text # <<>>
         /\ (Head(pattern) = "_" \/ LowerChar(Head(pattern)) = LowerChar(Head(text)))
         /\ Like(Tail(text), Tail(pattern))

\* LOWER(column) LIKE @query ; NULL LIKE x is NULL, which a WHERE treats as false
LowerLike(column, pattern) == ~IsNull(column) /\ Like(ToLower(Val(column)), pattern)

\* keywordSearch / buildKeywordAndFilterSql: the four-column text clause
TextClause(c, query) ==
    LET pattern == <<"%">> \o ToLower(query) \o <<"%">>
    IN  \/ LowerLike(Some(c.name), pattern)
        \/ LowerLike(c.one_liner, pattern)
        \/ LowerLike(c.long_description, pattern)
        \/ LowerLike(Some(c.search_text), pattern)

(***************************************************************************)
(* Launch year: strftime('%Y', launched_at, 'unixepoch') and               *)
(* new Date(launched_at * 1000).getUTCFullYear()                           *)
(***************************************************************************)
IsLeapYear(y) == (y % 4 = 0 /\ y % 100 # 0) \/ y % 400 = 0

SecondsInYear(y) == (IF IsLeapYear(y) THEN 366 ELSE 365) * 24 * 60 * 60

RECURSIVE YearFrom(_, _)
YearFrom(y, seconds) ==
    IF seconds < SecondsInYear(y) THEN y ELSE YearFrom(y + 1, seconds - SecondsInYear(y))

RECURSIVE YearBack(_, _)
\* the year that holds the instant `seconds` (< 0) counted from the end of year y
YearBack(y, seconds) ==
    IF seconds + SecondsInYear(y) >= 0 THEN y ELSE YearBack(y - 1, seconds + SecondsInYear(y))

\* the UTC calendar year of a Unix timestamp, before or after 1970
UtcYear(ts) == IF ts >= 0 THEN YearFrom(1970, ts) ELSE YearBack(1969, ts)

(***************************************************************************)
(* Filter predicate builder (buildFilterWhereClause): one fragment per     *)
(* dimension, pushed only when the dimension is active, joined with AND    *)
(***************************************************************************)
\* mutant: a flag that is not requested keeps only the companies without it
FlagFragmentsExact(filters, c) ==
    /\ c.is_hiring = (IF filters.isHiring THEN 1 ELSE 0)
    /\ c.nonprofit = (IF filters.nonprofit THEN 1 ELSE 0)
    /\ c.top_company = (IF filters.topCompany THEN 1 ELSE 0)

FlagFragments(filters, c) ==
    /\ (filters.isHiring => c.is_hiring = 1)
    /\ (filters.nonprofit => c.nonprofit = 1)
    /\ (filters.topCompany => c.top_company = 1)

\* c.batch IN (@batch_0, ...)
BatchFragment(filters, c) ==
    Len(filters.batches) > 0 =>
        (~IsNull(c.batch) /\ \E i \in 1..Len(filters.batches) : Val(c.batch) = filters.batches[i])

\* mutant: a company without launch timestamp passes the years clause
YearFragmentNullPasses(filters, c) ==
    Len(filters.years) > 0 =>
        (IsNull(c.launched_at)
            \/ \E i \in 1..Len(filters.years) : UtcYear(Val(c.launched_at)) = filters.years[i])

\* CAST(strftime('%Y', c.launched_at, 'unixepoch') AS INTEGER) = @year_i  OR ...
YearFragment(filters, c) ==
    Len(filters.years) > 0 =>
        (~IsNull(c.launched_at)
            /\ \E i \in 1..Len(filters.years) : UtcYear(Val(c.launched_at)) = filters.years[i])

\* EXISTS (SELECT 1 FROM json_each(c.tags) t WHERE t.value = @tag_i)  OR ...
TagFragment(filters, c) ==
    Len(filters.tags) > 0 =>
        \E i \in 1..Len(filters.tags) : \E k \in 1..Len(c.tags) : c.tags[k] = filters.tags[i]

\* mutant: the primary industry column is not consulted
IndustryClauseListOnly(c, industry) ==
    \E k \in 1..Len(c.industries) : c.industries[k] = industry

\* c.industry = @industry_i OR EXISTS (... json_each(c.industries) ...)
IndustryClause(c, industry) ==
    \/ (~IsNull(c.industry) /\ Val(c.industry) = industry)
    \/ \E k \in 1..Len(c.industries) : c.industries[k] = industry

IndustryFragment(filters, c) ==
    Len(filters.industries) > 0 =>
        \E i \in 1..Len(filters.industries) : IndustryClause(c, filters.industries[i])

\* c.stage IN (@stage_0, ...)
StageFragment(filters, c) ==
    Len(filters.stages) > 0 =>
        (~IsNull(c.stage) /\ \E i \in 1..Len(filters.stages) : Val(c.stage) = filters.stages[i])

\* EXISTS (SELECT 1 FROM json_each(c.regions) r WHERE r.value = @region_i)  OR ...
RegionFragment(filters, c) ==
    Len(filters.regions) > 0 =>
        \E i \in 1..Len(filters.regions) : \E k \in 1..Len(c.regions) : c.regions[k] = filters.regions[i]

\* mutant: the fragments of the active dimensions are joined with OR
buildFilterWhereClauseAny(filters, c) ==
    LET fragments ==
            {<<filters.isHiring, c.is_hiring = 1>>, <<filters.nonprofit, c.nonprofit = 1>>,
             <<filters.topCompany, c.top_company = 1>>,
             <<Len(filters.batches) > 0, BatchFragment(filters, c)>>,
             <<Len(filters.years) > 0, YearFragment(filters, c)>>,
             <<Len(filters.tags) > 0, TagFragment(filters, c)>>,
             <<Len(filters.industries) > 0, IndustryFragment(filters, c)>>,
             <<Len(filters.stages) > 0, StageFragment(filters, c)>>,
             <<Len(filters.regions) > 0, RegionFragment(filters, c)>>}
    IN  \/ \A p \in fragments : ~p[1]
        \/ \E p \in fragments : p[1] /\ p[2]

\* whereClauses.join(" AND ")
buildFilterWhereClause(filters, c) ==
    /\ FlagFragments(filters, c)
    /\ BatchFragment(filters, c)
    /\ YearFragment(filters, c)
    /\ TagFragment(filters, c)
    /\ IndustryFragment(filters, c)
    /\ StageFragment(filters, c)
    /\ RegionFragment(filters, c)

(***************************************************************************)
(* Sort clause (buildSortClause)                                           *)
(***************************************************************************)
RECURSIVE TextCmp(_, _)
\* BINARY collation: -1, 0, 1
TextCmp(s, t) ==
    IF s = <<>> THEN (IF t = <<>> THEN 0 ELSE -1)
    ELSE IF t = <<>> THEN 1
    ELSE IF CharCode(Head(s)) < CharCode(Head(t)) THEN -1
    ELSE IF CharCode(Head(s)) > CharCode(Head(t)) THEN 1
    ELSE TextCmp(Tail(s), Tail(t))

\* x DESC NULLS LAST: -1 when x sorts first
CmpDescNullsLast(x, y) ==
    IF IsNull(x) THEN (IF IsNull(y) THEN 0 ELSE 1)
    ELSE IF IsNull(y) THEN -1
    ELSE IF Val(x) > Val(y) THEN -1
    ELSE IF Val(x) < Val(y) THEN 1
    ELSE 0

CmpDesc(x, y) == IF x > y THEN -1 ELSE IF x < y THEN 1 ELSE 0

\* the first non-zero comparison of a key list
Lex3(k1, k2, k3) == IF k1 # 0 THEN k1 ELSE IF k2 # 0 THEN k2 ELSE k3

\* TRUE when ORDER BY puts row a strictly before row b
buildSortClause(sort, query, a, b) ==
    LET top == CmpDesc(a.top_company, b.top_company)
        name == TextCmp(a.name, b.name)
    IN  IF sort = "newest"
            THEN Lex3(CmpDescNullsLast(a.launched_at, b.launched_at), top, name) < 0
        ELSE IF sort = "team_size"
            THEN Lex3(CmpDescNullsLast(a.team_size, b.team_size), top, name) < 0
        ELSE IF sort = "name"
            THEN name < 0
        ELSE IF Len(Trim(query)) > 0
            THEN Lex3(top, CmpDescNullsLast(a.team_size, b.team_size), name) < 0
        ELSE Lex3(top, 0, name) < 0

(***************************************************************************)
(* Keyword search                                                          *)
(***************************************************************************)
\* launched_year: row.launched_at ? getUTCFullYear() : null  (0 is falsy)
LaunchedYear(c) ==
    IF IsNull(c.launched_at) \/ Val(c.launched_at) = 0 THEN NULL
    ELSE Some(UtcYear(Val(c.launched_at)))

hydrateResultRows(rows) ==
    [k \in 1..Len(rows) |->
        [id |-> rows[k], launched_year |-> LaunchedYear(companies[rows[k]])]]

\* the WHERE of keywordSearch and buildKeywordAndFilterSql
KeywordWhere(params, c) ==
    LET query == Trim(params.query)
    IN  /\ (Len(query) > 0 => TextClause(c, query))
        /\ buildFilterWhereClause(params.filters, c)

\* the rows the WHERE of a keyword statement lets through: the order of the
\* other rows in a scan shows in no result
KeywordRows(params) == {i \in 1..Len(companies) : KeywordWhere(params, companies[i])}

\* the rows the filter predicate alone lets through
FilterRows(filters) ==
    {i \in 1..Len(companies) : buildFilterWhereClause(filters, companies[i])}

\* variant: the offset is page * pageSize
keywordSearchOffsetByPage(params, scan) ==
    LET n == Len(companies)
        matched == TableScan(scan, [i \in 1..n |-> KeywordWhere(params, companies[i])])
        before == [i \in 1..n |-> [j \in 1..n |->
                      buildSortClause(params.sort, Trim(params.query), companies[i], companies[j])]]
        ordered == SortStable(matched, before)
        offset == params.page * params.pageSize
        rows == Slice(ordered, offset, offset + params.pageSize)
    IN  [total |-> Len(matched), page |-> params.page, pageSize |-> params.pageSize,
         results |-> hydrateResultRows(rows)]

\* scan is the order in which the statement visits the table.  No ORDER BY of
\* buildSortClause ends in a unique key, so rows that are equal on every key come
\* in the order of the scan; LIMIT and OFFSET are bound values of one prepared
\* statement and do not change that order
keywordSearch(params, scan) ==
    LET n == Len(companies)
        matched == TableScan(scan, [i \in 1..n |-> KeywordWhere(params, companies[i])])
        before == [i \in 1..n |-> [j \in 1..n |->
                      buildSortClause(params.sort, Trim(params.query), companies[i], companies[j])]]
        ordered == SortStable(matched, before)
        offset == (params.page - 1) * params.pageSize
        rows == Slice(ordered, offset, offset + params.pageSize)
    IN  [total |-> Len(matched), page |-> params.page, pageSize |-> params.pageSize,
         results |-> hydrateResultRows(rows)]

(***************************************************************************)
(* JavaScript numbers: IEEE 754 binary64, round to nearest, ties to even.  *)
(* A natural number of any size is the sequence of its digits in base      *)
(* LimbBase, lowest first, the highest digit not 0.                        *)
(***************************************************************************)
LimbBits == 15

LimbBase == 2^LimbBits

\* the bits of a double's significand
MantissaBits == 53

RECURSIVE NatFrom(_)
\* the digits of the integer n >= 0
NatFrom(n) == IF n = 0 THEN <<>> ELSE <<n % LimbBase>> \o NatFrom(n \div LimbBase)

RECURSIVE NatToInt(_)
NatToInt(a) == IF a = <<>> THEN 0 ELSE a[1] + LimbBase * NatToInt(Tail(a))

\* a without the zero digits at its top
NatTrim(a) ==
    SubSeq(a, 1, Cardinality({i \in 1..Len(a) : \E j \in i..Len(a) : a[j] # 0}))

NatDigit(a, i) == IF i >= 1 /\ i <= Len(a) THEN a[i] ELSE 0

\* the carry into column i of the columns s, each below 2 * LimbBase
CarryInto(s, i) ==
    \E j \in 1..(i - 1) :
        s[j] >= LimbBase /\ \A k \in (j + 1)..(i - 1) : s[k] = LimbBase - 1

CarryDigits(s) ==
    NatTrim([i \in 1..Len(s) |-> (s[i] + (IF CarryInto(s, i) THEN 1 ELSE 0)) % LimbBase])

\* the number with the columns s, each below 2 * LimbBase
NatCarry(s) == CarryDigits(s \o <<0>>)

NatAdd(a, b) ==
    IF a = <<>> THEN b
    ELSE IF b = <<>> THEN a
    ELSE NatCarry([i \in 1..Max(Len(a), Len(b)) |-> NatDigit(a, i) + NatDigit(b, i)])

\* the borrow from column i of the differences d, each above -LimbBase
BorrowFrom(d, i) ==
    \E j \in 1..(i - 1) : d[j] < 0 /\ \A k \in (j + 1)..(i - 1) : d[k] = 0

BorrowDigits(d) ==
    NatTrim([i \in 1..Len(d) |-> (d[i] - (IF BorrowFrom(d, i) THEN 1 ELSE 0)) % LimbBase])

\* a - b for a >= b
NatSub(a, b) ==
    IF b = <<>> THEN a
    ELSE BorrowDigits([i \in 1..Len(a) |-> a[i] - NatDigit(b, i)] \o <<>>)

\* the comparison at the highest digit where a and b differ, top the index of
\* that digit, 0 when there is none
NatCmpAt(a, b, top) == IF top = 0 THEN 0 ELSE IF a[top] < b[top] THEN -1 ELSE 1

\* -1, 0, 1
NatCmp(a, b) ==
    IF Len(a) < Len(b) THEN -1
    ELSE IF Len(a) > Len(b) THEN 1
    ELSE NatCmpAt(a, b, Cardinality({i \in 1..Len(a) : \E j \in i..Len(a) : a[j] # b[j]}))

RECURSIVE SumTo(_, _)
\* f[1] + ... + f[n]
SumTo(f, n) == IF n = 0 THEN 0 ELSE f[n] + SumTo(f, n - 1)

\* the digit products of column k of a * b, their low and their high digits
\* summed apart
ColumnLow(a, b, k) ==
    SumTo([i \in 1..Len(a) |-> (a[i] * NatDigit(b, k + 1 - i)) % LimbBase], Len(a))

ColumnHigh(a, b, k) ==
    SumTo([i \in 1..Len(a) |-> (a[i] * NatDigit(b, k + 1 - i)) \div LimbBase], Len(a))

ProductColumns(a, b) ==
    [k \in 1..(Len(a) + Len(b)) |-> ColumnLow(a, b, k) + ColumnHigh(a, b, k - 1)] \o <<>>

\* columns below 2 * LimbBase from columns v below LimbBase * LimbBase
FirstCarry(v) ==
    [k \in 1..Len(v) |-> (v[k] % LimbBase) + (NatDigit(v, k - 1) \div LimbBase)]

NatMul(a, b) ==
    IF a = <<>> \/ b = <<>> THEN <<>> ELSE NatCarry(FirstCarry(ProductColumns(a, b)))

\* a * d for one digit d
NatScale(a, d) ==
    IF a = <<>> \/ d = 0 THEN <<>>
    ELSE NatCarry([i \in 1..(Len(a) + 1) |->
            ((NatDigit(a, i) * d) % LimbBase) + ((NatDigit(a, i - 1) * d) \div LimbBase)])

\* a * 2^r * LimbBase^q
NatShift(a, q, r) ==
    IF a = <<>> THEN <<>>
    ELSE NatTrim([i \in 1..(Len(a) + q + 1) |->
            ((NatDigit(a, i - q) * 2^r) % LimbBase)
                + ((NatDigit(a, i - q - 1) * 2^r) \div LimbBase)])

\* a * 2^k
NatShl(a, k) == NatShift(a, k \div LimbBits, k % LimbBits)

\* a \div (2^r * LimbBase^q)
NatShiftDown(a, q, r) ==
    IF Len(a) <= q THEN <<>>
    ELSE NatTrim([i \in 1..(Len(a) - q) |->
            (a[i + q] \div 2^r) + (NatDigit(a, i + q + 1) % 2^r) * 2^(LimbBits - r)])

\* a \div 2^k
NatShr(a, k) == NatShiftDown(a, k \div LimbBits, k % LimbBits)

\* a % (2^r * LimbBase^q)
NatLowDigits(a, q, r) ==
    NatTrim([i \in 1..Min(Len(a), q + 1) |-> IF i <= q THEN a[i] ELSE a[i] % 2^r])

\* a % 2^k
NatLow(a, k) == NatLowDigits(a, k \div LimbBits, k % LimbBits)

\* bit k of a, bit 0 the lowest
NatBit(a, k) == (NatDigit(a, (k \div LimbBits) + 1) \div 2^(k % LimbBits)) % 2

\* the number of bits of the digit d
DigitBits(d) == Cardinality({b \in 0..(LimbBits - 1) : d >= 2^b})

\* the number of bits of a
NatBits(a) == IF a = <<>> THEN 0 ELSE LimbBits * (Len(a) - 1) + DigitBits(a[Len(a)])

RECURSIVE DigitAtMost(_, _, _)
\* the largest digit u <= t with d * u <= n
DigitAtMost(t, n, d) ==
    IF NatCmp(NatScale(d, t), n) <= 0 THEN t ELSE DigitAtMost(t - 1, n, d)

\* the next digit of a quotient, for a divisor whose highest digit is at least
\* LimbBase / 2: the two highest digits of n by the highest of d is that digit
\* or up to two more
QuotientDigit(n, d) ==
    DigitAtMost(Min(LimbBase - 1,
                    (NatDigit(n, Len(d) + 1) * LimbBase + NatDigit(n, Len(d))) \div d[Len(d)]),
                n, d)

RECURSIVE NatDivFrom(_, _, _, _, _)
\* the digit t of the quotient is put before q, d * t is taken from down
NatDivPut(n, d, k, q, down, t) ==
    IF t = 0 THEN NatDivFrom(n, d, k - 1, <<0>> \o q, down)
    ELSE NatDivFrom(n, d, k - 1, <<t>> \o q, NatSub(down, NatScale(d, t)))

\* long division: the digits of n from the k-th down are still to be brought
\* down, q and r are the quotient and the remainder of the digits above them
NatDivFrom(n, d, k, q, r) ==
    IF k = 0 THEN [q |-> NatTrim(q), r |-> r]
    ELSE NatDivPut(n, d, k, q, NatTrim(<<n[k]>> \o r),
                   QuotientDigit(NatTrim(<<n[k]>> \o r), d))

\* the division of n by d, n with at least the digits of d: the digits of n
\* above its lowest Len(n) - Len(d) + 1 are below d
NatDivLong(n, d) ==
    NatDivFrom(n, d, Len(n) - Len(d) + 1, <<>>, SubSeq(n, Len(n) - Len(d) + 2, Len(n)))

\* the bits by which d is shifted to bring its highest digit to LimbBase / 2
NormalShift(d) == LimbBits - DigitBits(d[Len(d)])

NatUnshift(result, s) == [q |-> result.q, r |-> NatShr(result.r, s)]

\* quotient and remainder of n by d > 0
NatDivMod(n, d) ==
    IF NatCmp(n, d) < 0 THEN [q |-> <<>>, r |-> n]
    ELSE NatUnshift(NatDivLong(NatShl(n, NormalShift(d)), NatShl(d, NormalShift(d))),
                    NormalShift(d))

\* (x + n \div x) \div 2
NewtonStep(n, x) == NatShr(NatAdd(x, NatDivMod(n, x).q), 1)

RECURSIVE NatSqrtFrom(_, _, _)
\* Newton's iteration from above: it stops at the integer part of the root
NatSqrtFrom(n, x, y) ==
    IF NatCmp(y, x) >= 0 THEN x ELSE NatSqrtFrom(n, y, NewtonStep(n, y))

\* the integer part of the square root of n > 0
NatSqrt(n) ==
    NatSqrtFrom(n, NatShl(<<1>>, (NatBits(n) + 1) \div 2),
                NewtonStep(n, NatShl(<<1>>, (NatBits(n) + 1) \div 2)))

\* a double is  (-1)^neg * m * 2^e : m is 0 or has MantissaBits bits, or fewer
\* at the exponent MinExponent (a subnormal).  With m = 0 the field e tells
\* zero (0), NaN (1) and the infinities (2) apart.
MinExponent == 0 - 1074

MaxExponent == 971

F64Zero(neg) == [neg |-> neg, m |-> <<>>, e |-> 0]

F64NaN == [neg |-> FALSE, m |-> <<>>, e |-> 1]

F64Infinity(neg) == [neg |-> neg, m |-> <<>>, e |-> 2]

IsZero(x) == x.m = <<>> /\ x.e = 0

IsNaN(x) == x.m = <<>> /\ x.e = 1

IsInfinite(x) == x.m = <<>> /\ x.e = 2

\* Number.isFinite
IsFinite(x) == x.m # <<>> \/ x.e = 0

\* a significand beyond the largest double is an infinity
F64Finite(neg, m, e) ==
    IF e > MaxExponent THEN F64Infinity(neg) ELSE [neg |-> neg, m |-> m, e |-> e]

\* m or m + 1 as a significand: a carry out of its MantissaBits bits halves it
F64Fit(neg, m, e) ==
    IF m = <<>> THEN F64Zero(neg)
    ELSE IF NatBits(m) > MantissaBits THEN F64Finite(neg, NatShr(m, 1), e + 1)
    ELSE F64Finite(neg, m, e)

\* half is the comparison of the bits dropped with one half of the last bit
\* kept: above it the double rounds up, on it to the even significand
F64RoundUp(neg, kept, e, half, sticky) ==
    IF half > 0 \/ (half = 0 /\ (sticky \/ NatBit(kept, 0) = 1))
    THEN F64Fit(neg, NatAdd(kept, <<1>>), e)
    ELSE F64Fit(neg, kept, e)

\* the lowest drop bits of m are dropped
F64RoundOff(neg, m, e, sticky, drop) ==
    IF drop <= 0 THEN F64Finite(neg, NatShl(m, 0 - drop), e + drop)
    ELSE F64RoundUp(neg, NatShr(m, drop), e + drop,
                    NatCmp(NatLow(m, drop), NatShl(<<1>>, drop - 1)), sticky)

\* the double nearest to (m + f) * 2^e with 0 <= f < 1 and f > 0 exactly when
\* sticky; of two nearest ones the one with the even significand
F64Round(neg, m, e, sticky) ==
    IF m = <<>> THEN F64Zero(neg)
    ELSE F64RoundOff(neg, m, e, sticky, Max(NatBits(m) - MantissaBits, MinExponent - e))

\* the number JSON.parse gives for an integer literal
F64FromInt(n) == F64Round(n < 0, NatFrom(IF n < 0 THEN 0 - n ELSE n), 0, FALSE)

\* -x
F64Neg(x) == IF IsNaN(x) THEN x ELSE [x EXCEPT !.neg = ~x.neg]

\* x * y
F64Mul(x, y) ==
    IF IsNaN(x) \/ IsNaN(y) THEN F64NaN
    ELSE IF IsInfinite(x) \/ IsInfinite(y)
         THEN (IF IsZero(x) \/ IsZero(y) THEN F64NaN ELSE F64Infinity(x.neg # y.neg))
    ELSE IF IsZero(x) \/ IsZero(y) THEN F64Zero(x.neg # y.neg)
    ELSE F64Round(x.neg # y.neg, NatMul(x.m, y.m), x.e + y.e, FALSE)

\* a * 2^e - b * 2^e with the signs of x and y, c the comparison of a and b
F64Difference(xneg, a, yneg, b, e, c) ==
    IF c = 0 THEN F64Zero(FALSE)
    ELSE F64Round(IF c > 0 THEN xneg ELSE yneg,
                  IF c > 0 THEN NatSub(a, b) ELSE NatSub(b, a), e, FALSE)

\* the sum of the significands a and b, both at the exponent e
F64Aligned(xneg, a, yneg, b, e) ==
    IF xneg = yneg THEN F64Round(xneg, NatAdd(a, b), e, FALSE)
    ELSE F64Difference(xneg, a, yneg, b, e, NatCmp(a, b))

\* x + y
F64Add(x, y) ==
    IF IsNaN(x) \/ IsNaN(y) THEN F64NaN
    ELSE IF IsInfinite(x) THEN (IF IsInfinite(y) /\ x.neg # y.neg THEN F64NaN ELSE x)
    ELSE IF IsInfinite(y) THEN y
    ELSE IF IsZero(x) THEN (IF IsZero(y) THEN F64Zero(x.neg /\ y.neg) ELSE y)
    ELSE IF IsZero(y) THEN x
    ELSE F64Aligned(x.neg, NatShl(x.m, x.e - Min(x.e, y.e)),
                    y.neg, NatShl(y.m, y.e - Min(x.e, y.e)), Min(x.e, y.e))

\* x - y
F64Sub(x, y) == F64Add(x, F64Neg(y))

\* the quotient of x.m * 2^k by y.m, which has more bits than a significand
F64Quotient(x, y, qr, k) ==
    F64Round(x.neg # y.neg, qr.q, x.e - y.e - k, qr.r # <<>>)

F64QuotientBy(x, y, k) == F64Quotient(x, y, NatDivMod(NatShl(x.m, k), y.m), k)

\* x / y
F64Div(x, y) ==
    IF IsNaN(x) \/ IsNaN(y) THEN F64NaN
    ELSE IF IsInfinite(x) THEN (IF IsInfinite(y) THEN F64NaN ELSE F64Infinity(x.neg # y.neg))
    ELSE IF IsInfinite(y) THEN F64Zero(x.neg # y.neg)
    ELSE IF IsZero(y) THEN (IF IsZero(x) THEN F64NaN ELSE F64Infinity(x.neg # y.neg))
    ELSE IF IsZero(x) THEN F64Zero(x.neg # y.neg)
    ELSE F64QuotientBy(x, y, 2 * MantissaBits + 3 - NatBits(x.m))

\* the double nearest to the square root of n * 2^e, e even, root the integer part
\* of the square root of n
F64Root(n, e, root) == F64Round(FALSE, root, e \div 2, NatMul(root, root) # n)

F64RootOf(n, e) == F64Root(n, e, NatSqrt(n))

\* the bits a significand is shifted by before its root is taken: they make the
\* exponent even and the root longer than a significand
RootShift(x) == MantissaBits + 5 + (x.e % 2) + 2 * (MantissaBits - NatBits(x.m))

\* Math.sqrt(x)
F64Sqrt(x) ==
    IF IsNaN(x) \/ IsZero(x) THEN x
    ELSE IF x.neg THEN F64NaN
    ELSE IF IsInfinite(x) THEN x
    ELSE F64RootOf(NatShl(x.m, RootShift(x)), x.e - RootShift(x))

\* the comparison of |x| and |y|, neither 0: a larger exponent of a significand
\* of MantissaBits bits is a larger number, and so is one above MinExponent
F64CmpAbs(x, y) ==
    IF x.e < y.e THEN -1 ELSE IF x.e > y.e THEN 1 ELSE NatCmp(x.m, y.m)

\* x < y for two finite numbers
F64FiniteLess(x, y) ==
    IF IsZero(x) /\ IsZero(y) THEN FALSE
    ELSE IF IsZero(x) THEN ~y.neg
    ELSE IF IsZero(y) THEN x.neg
    ELSE IF x.neg # y.neg THEN x.neg
    ELSE IF x.neg THEN F64CmpAbs(x, y) > 0
    ELSE F64CmpAbs(x, y) < 0

\* x < y
F64Less(x, y) ==
    IF IsNaN(x) \/ IsNaN(y) THEN FALSE
    ELSE IF IsInfinite(x) THEN x.neg /\ ~(IsInfinite(y) /\ y.neg)
    ELSE IF IsInfinite(y) THEN ~y.neg
    ELSE F64FiniteLess(x, y)

RECURSIVE NatPow10(_)
\* 10^k
NatPow10(k) == IF k = 0 THEN <<1>> ELSE NatScale(NatPow10(k - 1), 10)

\* n / d rounded once: the quotient of n * 2^k by d has more bits than a
\* significand, the remainder tells whether bits were lost
F64RatioAt(neg, qr, k) == F64Round(neg, qr.q, 0 - k, qr.r # <<>>)

F64RatioBy(neg, n, d, k) == F64RatioAt(neg, NatDivMod(NatShl(n, k), d), k)

F64Ratio(neg, n, d) ==
    F64RatioBy(neg, n, d, Max(0, MantissaBits + 3 + NatBits(d) - NatBits(n)))

\* the double nearest to n * 10^shift: what a decimal literal with the digits n
\* stands for.  A literal beyond 10^400 is an infinity and one below 10^-400 is 0
F64FromDecimal(neg, n, shift) ==
    IF n = <<>> THEN F64Zero(neg)
    ELSE IF shift > 400 THEN F64Infinity(neg)
    ELSE IF shift >= 0 THEN F64Round(neg, NatMul(n, NatPow10(shift)), 0, FALSE)
    ELSE IF shift + NatBits(n) < 0 - 400 THEN F64Zero(neg)
    ELSE F64Ratio(neg, n, NatPow10(0 - shift))

(***************************************************************************)
(* Cosine similarity and scores                                            *)
(***************************************************************************)
\* toFixed(4): scores are reported in units of 1 / ScoreScale
ScoreScale == 10000

RECURSIVE SumProducts(_, _, _, _)
\* for (i ...) acc += a[i] * b[i]
SumProducts(a, b, i, acc) ==
    IF i > Len(a) THEN acc
    ELSE SumProducts(a, b, i + 1,
                     F64Add(acc, F64Mul(F64FromInt(a[i]), F64FromInt(b[i]))))

\* the sum the loop of cosineSimilarity leaves in dot, normA or normB
SumOfProducts(a, b) == SumProducts(a, b, 1, F64Zero(FALSE))

\* what cosineSimilarity returns after its loop
CosineOf(dot, normA, normB) ==
    IF IsZero(normA) \/ IsZero(normB) THEN F64Zero(FALSE)
    ELSE F64Div(dot, F64Mul(F64Sqrt(normA), F64Sqrt(normB)))

\* the score 0 returned by every guard of cosineSimilarity
ZeroScore == F64Zero(FALSE)

\* dot / (Math.sqrt(normA) * Math.sqrt(normB)) in doubles, each operation rounded
cosineSimilarity(a, b) ==
    IF Len(a) # Len(b) \/ Len(a) = 0 THEN ZeroScore
    ELSE CosineOf(SumOfProducts(a, b), SumOfProducts(a, a), SumOfProducts(b, b))

\* the vectors of the corpora and of the provider answers of the specifications
PoolVectors ==
    {<<>>, <<0, 0>>, <<1, 0>>, <<0, 1>>, <<1, 1>>, <<0 - 1, 1>>, <<2, 0>>, <<0, 2>>, <<1, 2>>}

\* cosineSimilarity of every two of them, computed once
PoolSimilarities ==
    {[a |-> a, b |-> b, score |-> cosineSimilarity(a, b)] : a \in PoolVectors, b \in PoolVectors}

\* cosineSimilarity(a, b), looked up for two vectors of the pool
SimilarityOf(a, b) ==
    IF a \in PoolVectors /\ b \in PoolVectors
    THEN (CHOOSE s \in PoolSimilarities : s.a = a /\ s.b = b).score
    ELSE cosineSimilarity(a, b)

\* x < y for two scores: the sign of the comparator's  right.score - left.score
ScoreLess(x, y) == F64Less(x, y)

\* the integer n nearest to |s| * ScoreScale, the larger one of two nearest
NearestFixed(s) ==
    IF s.e >= 0 THEN NatShr(NatShl(NatScale(s.m, 2 * ScoreScale), s.e), 1)
    ELSE NatShr(NatAdd(NatScale(s.m, 2 * ScoreScale), NatShl(<<1>>, 0 - s.e)), 1 - s.e)

\* Number(score.toFixed(4)) in ten-thousandths: that integer with the sign of s
ToFixed4(s) == IF s.neg THEN 0 - NatToInt(NearestFixed(s)) ELSE NatToInt(NearestFixed(s))

(***************************************************************************)
(* Stored vectors: company_embeddings.vector is JSON text                  *)
(***************************************************************************)
JsonArray(items) == [kind |-> "array", items |-> items]

JsonMalformed == [kind |-> "malformed", items |-> <<>>]

\* the empty text ''
JsonEmpty == [kind |-> "empty", items |-> <<>>]

\* JSON.parse(text) throws a SyntaxError
JsonParseThrows(json) == json.kind \in {"malformed", "empty"}

HasEmbedding(id) == ~IsNull(company_embeddings[id])

StoredVector(id) == Val(company_embeddings[id]).vector

\* cosineSimilarity(queryVector, JSON.parse(row.vector) as number[])
ScoreOf(queryVector, id) ==
    IF StoredVector(id).kind = "array"
    THEN SimilarityOf(queryVector, StoredVector(id).items)
    ELSE ZeroScore

(***************************************************************************)
(* Semantic search and its top-K companion                                 *)
(***************************************************************************)
\* FROM companies c INNER JOIN company_embeddings e ... WHERE <filter>, the rows
\* in the order of the scan
SemanticRows(filters, scan) ==
    LET n == Len(companies)
    IN  TableScan(scan, [i \in 1..n |->
            HasEmbedding(i) /\ buildFilterWhereClause(filters, companies[i])])

\* mutant: the scored rows are left in the order of the scan
RankByScoreUnsorted(rows, queryVector) == rows

\* .sort((left, right) => right.score - left.score) over the rows' ids: the
\* scores are the doubles of cosineSimilarity, and rows whose doubles are equal
\* stay in the order of the scan
RankByScore(rows, queryVector) ==
    LET n == Len(companies)
        before == [i \in 1..n |-> [j \in 1..n |->
                      IF HasEmbedding(i) /\ HasEmbedding(j)
                      THEN ScoreLess(ScoreOf(queryVector, j), ScoreOf(queryVector, i))
                      ELSE FALSE]]
    IN  SortStable(rows, before)

\* mutant: the page number is taken as 0-based
PageWindowZeroBased(scored, page, pageSize) ==
    Slice(scored, page * pageSize, page * pageSize + pageSize)

\* start = (page - 1) * pageSize; scored.slice(start, start + pageSize)
PageWindow(scored, page, pageSize) ==
    Slice(scored, (page - 1) * pageSize, (page - 1) * pageSize + pageSize)

Thrown(what) == [error |-> what]

IsThrown(result) == "error" \in DOMAIN result

semanticSearch(params, queryVector, scan) ==
    LET query == Trim(params.query)
        rows == SemanticRows(params.filters, scan)
        scored == RankByScore(rows, queryVector)
        paged == PageWindow(scored, params.page, params.pageSize)
    IN  IF Len(query) = 0 THEN keywordSearch(params, scan)
        ELSE IF \E k \in 1..Len(rows) : JsonParseThrows(StoredVector(rows[k]))
            THEN Thrown("SyntaxError")
        ELSE [total |-> Len(scored), page |-> params.page, pageSize |-> params.pageSize,
              results |-> [k \in 1..Len(paged) |->
                  [id |-> paged[k],
                   launched_year |-> LaunchedYear(companies[paged[k]]),
                   score |-> ToFixed4(ScoreOf(queryVector, paged[k]))]]]

getSemanticTopCompanyIds(params, limit, queryVector, scan) ==
    LET query == Trim(params.query)
        rows == SemanticRows(params.filters, scan)
    IN  IF Len(query) = 0 THEN [ids |-> <<>>]
        ELSE IF \E k \in 1..Len(rows) : JsonParseThrows(StoredVector(rows[k]))
            THEN Thrown("SyntaxError")
        ELSE [ids |-> Slice(RankByScore(rows, queryVector), 0, limit)]

\* data[0]?.embedding ?? [] of the provider's answer
AnswerVector(answer) == IF IsNull(answer) THEN <<>> ELSE Val(answer)

\* await openai.embeddings.create(...) rejects: nothing catches it
ProviderCallFails(params, failed) == Len(Trim(params.query)) > 0 /\ failed

\* mutant: a failed provider call is answered with the keyword results
semanticSearchFallsBack(params, answer, failed, scan) ==
    IF ProviderCallFails(params, failed) THEN keywordSearch(params, scan)
    ELSE semanticSearch(params, AnswerVector(answer), scan)

\* semanticSearch with its provider call: the call is made for a non-blank query
semanticSearchWithProvider(params, answer, failed, scan) ==
    IF ProviderCallFails(params, failed) THEN Thrown("ProviderError")
    ELSE semanticSearch(params, AnswerVector(answer), scan)

getSemanticTopCompanyIdsWithProvider(params, limit, answer, failed, scan) ==
    IF ProviderCallFails(params, failed) THEN Thrown("ProviderError")
    ELSE getSemanticTopCompanyIds(params, limit, AnswerVector(answer), scan)

\* the number of openai.embeddings.create calls of one request
ProviderCalls(params) == IF Len(Trim(params.query)) > 0 THEN 1 ELSE 0

(***************************************************************************)
(* Corpora of the search specification                                     *)
(***************************************************************************)
MaxCompanies == 2

MaxPage == 2

MaxPageSize == 2

MaxTopK == 2

EmbeddingRow(items, at) == Some([vector |-> JsonArray(items), updated_at |-> at])

\* company rows (with the embedding row each starts with) the corpora are drawn from
SearchPool == <<
    [row |-> [name |-> <<"A", "b">>, one_liner |-> NULL, long_description |-> NULL,
              search_text |-> <<>>, batch |-> Some(<<"W", "2", "1">>), stage |-> Some("Early"),
              industry |-> Some("B2B"), launched_at |-> Some(1546300800),
              team_size |-> Some(10), is_hiring |-> 1, nonprofit |-> 0, top_company |-> 1,
              tags |-> <<"ai">>, industries |-> <<"B2B">>, regions |-> <<"Europe">>],
     embedding |-> EmbeddingRow(<<1, 0>>, 0)],
    [row |-> [name |-> <<"b">>, one_liner |-> Some(<<"A", "%">>), long_description |-> NULL,
              search_text |-> <<"b">>, batch |-> NULL, stage |-> NULL,
              industry |-> Some("Fintech"), launched_at |-> NULL,
              team_size |-> NULL, is_hiring |-> 0, nonprofit |-> 0, top_company |-> 0,
              tags |-> <<"fintech", "ai">>, industries |-> <<>>, regions |-> <<>>],
     embedding |-> EmbeddingRow(<<1, 1>>, 0)],
    [row |-> [name |-> <<"B", "_">>, one_liner |-> NULL, long_description |-> Some(<<"a", "b">>),
              search_text |-> <<>>, batch |-> Some(<<"S", "2", "1">>), stage |-> Some("Growth"),
              industry |-> NULL, launched_at |-> Some(1640995200),
              team_size |-> Some(3), is_hiring |-> 0, nonprofit |-> 1, top_company |-> 0,
              tags |-> <<>>, industries |-> <<"Fintech", "B2B">>, regions |-> <<"Asia", "Europe">>],
     embedding |-> NULL],
    [row |-> [name |-> <<"A", "b">>, one_liner |-> Some(<<"b">>), long_description |-> NULL,
              search_text |-> <<"a", "_", "b">>, batch |-> Some(<<"W", "2", "1">>), stage |-> Some("Early"),
              industry |-> Some("B2B"), launched_at |-> Some(1640995199),
              team_size |-> Some(10), is_hiring |-> 1, nonprofit |-> 0, top_company |-> 1,
              tags |-> <<"ai", "ai">>, industries |-> <<"Fintech">>, regions |-> <<"Asia">>],
     embedding |-> EmbeddingRow(<<0, 1>>, 0)],
    [row |-> [name |-> <<"%">>, one_liner |-> Some(<<>>), long_description |-> NULL,
              search_text |-> <<"B", "a">>, batch |-> Some(<<"S", "2", "1">>), stage |-> Some("Growth"),
              industry |-> NULL, launched_at |-> Some(1577836799),
              team_size |-> Some(1), is_hiring |-> 0, nonprofit |-> 0, top_company |-> 1,
              tags |-> <<"fintech">>, industries |-> <<>>, regions |-> <<"Europe">>],
     embedding |-> EmbeddingRow(<<0 - 1, 1>>, 0)],
    [row |-> [name |-> <<"a">>, one_liner |-> NULL, long_description |-> NULL,
              search_text |-> <<>>, batch |-> Some(<<"F", "2", "4">>), stage |-> NULL,
              industry |-> Some("Consumer"), launched_at |-> Some(0),
              team_size |-> NULL, is_hiring |-> 1, nonprofit |-> 1, top_company |-> 0,
              tags |-> <<"devtools">>, industries |-> <<"Consumer">>, regions |-> <<"Africa">>],
     embedding |-> EmbeddingRow(<<0, 0>>, 0)],
    [row |-> [name |-> <<"c">>, one_liner |-> NULL, long_description |-> NULL,
              search_text |-> <<"a">>, batch |-> NULL, stage |-> Some("Early"),
              industry |-> NULL, launched_at |-> NULL,
              team_size |-> NULL, is_hiring |-> 0, nonprofit |-> 0, top_company |-> 0,
              tags |-> <<"ai">>, industries |-> <<>>, regions |-> <<>>],
     embedding |-> Some([vector |-> JsonMalformed, updated_at |-> 0])] >>

(***************************************************************************)
(* Request inputs                                                          *)
(***************************************************************************)
\* a SearchFilters value with no dimension active.  Every list of the type is
\* present: batches is a required field of SearchFilters, and the callers of the
\* search functions build the object field by field (app/api/chat/route.ts)
EmptyFilters ==
    [tags |-> <<>>, industries |-> <<>>, batches |-> <<>>, years |-> <<>>,
     stages |-> <<>>, regions |-> <<>>,
     isHiring |-> FALSE, nonprofit |-> FALSE, topCompany |-> FALSE]

\* the value lists a dimension is filtered by: one value, another, or both
ValueLists(v, w) == {<<v>>, <<w>>, <<v, w>>}

\* filter sets with several active dimensions
CombinedFilters ==
    {[EmptyFilters EXCEPT !.tags = <<"ai">>, !.isHiring = TRUE],
     [EmptyFilters EXCEPT !.industries = <<"Fintech">>, !.regions = <<"Asia", "Europe">>],
     [EmptyFilters EXCEPT !.batches = <<<<"W", "2", "1">>>>, !.years = <<2019>>],
     [EmptyFilters EXCEPT !.years = <<2019, 2022>>, !.stages = <<"Growth">>, !.topCompany = TRUE],
     [EmptyFilters EXCEPT !.isHiring = TRUE, !.nonprofit = TRUE]}

\* the filter sets of the requests: none, one or several active dimensions
FilterSets ==
    CombinedFilters
    \cup {EmptyFilters}
    \cup {[EmptyFilters EXCEPT !.tags = l] : l \in ValueLists("ai", "fintech")}
    \cup {[EmptyFilters EXCEPT !.industries = l] : l \in ValueLists("B2B", "Fintech")}
    \cup {[EmptyFilters EXCEPT !.batches = l] : l \in ValueLists(<<"W", "2", "1">>, <<"S", "2", "1">>)}
    \cup {[EmptyFilters EXCEPT !.years = l] : l \in ValueLists(2019, 2022)}
    \cup {[EmptyFilters EXCEPT !.stages = l] : l \in ValueLists("Early", "Growth")}
    \cup {[EmptyFilters EXCEPT !.regions = l] : l \in ValueLists("Europe", "Asia")}
    \cup {[EmptyFilters EXCEPT !.isHiring = TRUE], [EmptyFilters EXCEPT !.nonprofit = TRUE],
          [EmptyFilters EXCEPT !.topCompany = TRUE]}

\* query strings: empty, blank, plain, mixed case, and the LIKE metacharacters
Queries == {<<>>, <<" ">>, <<"a">>, <<"A", "B">>, <<"_">>, <<"%">>}

SemanticQueries == {<<" ">>, <<"a">>}

SortModes == {"relevance", "newest", "team_size", "name"}

\* what the embedding provider may answer for a query (data[0]?.embedding ?? [])
QueryVectors == {<<1, 0>>, <<1, 1>>, <<>>}

(***************************************************************************)
(* Initial states                                                          *)
(***************************************************************************)
\* no script runs, no page is open, no scrape is under way
NoBackground ==
    /\ website_snapshots = {}
    /\ sync = [procs |-> <<>>]
    /\ dashboard = [open |-> FALSE]
    /\ scrape = [status |-> "none"]

CacheIdle ==
    /\ now = 0
    /\ projectionCache = NULL
    /\ dirty = FALSE
    /\ lastPoints = NULL

\* a corpus is any selection of pool rows, repeats included; its ids follow the
\* order of the pool
InitSearch ==
    /\ \E n \in 0..MaxCompanies : \E pick \in [1..n -> 1..Len(SearchPool)] :
          /\ \A i \in 1..n, j \in 1..n : i < j => pick[i] <= pick[j]
          /\ companies = [i \in 1..n |-> SearchPool[pick[i]].row]
          /\ company_embeddings = [i \in 1..n |-> SearchPool[pick[i]].embedding]
    /\ call = [op |-> "none"]
    /\ CacheIdle
    /\ NoBackground

(***************************************************************************)
(* Actions of the search specification: one request each                   *)
(***************************************************************************)
\* the request handlers are stateless: a request is served, its response is
\* delivered (Respond), and the next request starts from the same tables
Idle == call.op = "none"

KeywordSearch ==
    /\ Idle
    /\ \E query \in Queries, filters \in FilterSets, sort \in SortModes,
       page \in 1..MaxPage, pageSize \in 1..MaxPageSize :
        LET params == [query |-> query, page |-> page, pageSize |-> pageSize,
                       sort |-> sort, filters |-> filters]
        IN  \E scan \in Scans(KeywordRows(params)) :
            /\ call' = [op |-> "keywordSearch", params |-> params,
                        result |-> keywordSearch(params, scan)]
            /\ UNCHANGED <<companies, company_embeddings, now, projectionCache, dirty, lastPoints, background>>

\* keywordSearch called without search text and with the default sort: the
\* listing the filters alone select
BrowseCompanies ==
    /\ Idle
    /\ \E filters \in FilterSets, page \in 1..MaxPage, pageSize \in 1..MaxPageSize :
        LET params == [query |-> <<>>, page |-> page, pageSize |-> pageSize,
                       sort |-> "relevance", filters |-> filters]
        IN  \E scan \in Scans(KeywordRows(params)) :
            /\ call' = [op |-> "keywordSearch", params |-> params,
                        result |-> keywordSearch(params, scan)]
            /\ UNCHANGED <<companies, company_embeddings, now, projectionCache, dirty, lastPoints, background>>

\* keywordSearch called page by page: every page of a listing in every sort
\* mode, without or with search text, under no or several filters
BrowsePages ==
    /\ Idle
    /\ \E query \in {<<>>, <<"a">>}, filters \in CombinedFilters \cup {EmptyFilters},
          sort \in SortModes, page \in 1..MaxPage, pageSize \in 1..MaxPageSize :
        LET params == [query |-> query, page |-> page, pageSize |-> pageSize,
                       sort |-> sort, filters |-> filters]
        IN  \E scan \in Scans(KeywordRows(params)) :
            /\ call' = [op |-> "keywordSearch", params |-> params,
                        result |-> keywordSearch(params, scan)]
            /\ UNCHANGED <<companies, company_embeddings, now, projectionCache, dirty, lastPoints,
                           background>>

\* the provider is called only for a query that is not blank
ProviderAnswers(query) == IF Len(Trim(query)) = 0 THEN {NULL} ELSE {Some(v) : v \in QueryVectors}

\* how the provider call of a request ends: with an answer, or rejected
ProviderOutcomes(query) ==
    {[answer |-> a, failed |-> FALSE] : a \in ProviderAnswers(query)}
    \cup (IF Len(Trim(query)) = 0 THEN {} ELSE {[answer |-> NULL, failed |-> TRUE]})

SemanticSearch ==
    /\ Idle
    /\ \E query \in SemanticQueries, filters \in FilterSets,
       page \in 1..MaxPage, pageSize \in 1..MaxPageSize :
        \E outcome \in ProviderOutcomes(query), scan \in Scans(FilterRows(filters)) :
            LET params == [query |-> query, page |-> page, pageSize |-> pageSize,
                           sort |-> "relevance", filters |-> filters]
            IN  /\ call' = [op |-> "semanticSearch", params |-> params,
                            answer |-> outcome.answer, failed |-> outcome.failed,
                            providerCalls |-> ProviderCalls(params),
                            result |-> semanticSearchWithProvider(params, outcome.answer,
                                                                  outcome.failed, scan)]
                /\ UNCHANGED <<companies, company_embeddings, now, projectionCache, dirty, lastPoints, background>>

GetSemanticTopCompanyIds ==
    /\ Idle
    /\ \E query \in SemanticQueries, filters \in FilterSets, limit \in 1..MaxTopK :
        \E outcome \in ProviderOutcomes(query), scan \in Scans(FilterRows(filters)) :
            LET params == [query |-> query, page |-> 1, pageSize |-> limit,
                           sort |-> "relevance", filters |-> filters]
            IN  /\ call' = [op |-> "getSemanticTopCompanyIds", params |-> params,
                            limit |-> limit,
                            answer |-> outcome.answer, failed |-> outcome.failed,
                            providerCalls |-> ProviderCalls(params),
                            result |-> getSemanticTopCompanyIdsWithProvider(
                                          params, limit, outcome.answer, outcome.failed, scan)]
                /\ UNCHANGED <<companies, company_embeddings, now, projectionCache, dirty, lastPoints, background>>

\* the handler has returned or thrown: call holds what it answers
Answered == "result" \in DOMAIN call

Respond ==
    /\ Answered
    /\ call' = [op |-> "none"]
    /\ UNCHANGED <<companies, company_embeddings, now, projectionCache, dirty, lastPoints, background>>

(***************************************************************************)
(* Properties of the search specification                                  *)
(***************************************************************************)
Ids(results) == [k \in 1..Len(results) |-> results[k].id]

NonBlank(query) == Len(Trim(query)) > 0

\* text contains q as a substring, ignoring case
ContainsCI(text, q) ==
    \E i \in 1..(Len(text) - Len(q) + 1) :
        SubSeq(ToLower(text), i, i + Len(q) - 1) = ToLower(q)

NullableContainsCI(column, q) == ~IsNull(column) /\ ContainsCI(Val(column), q)

\* the text match of the claim: a substring of one of the four text columns
SubstringMatch(c, q) ==
    \/ ContainsCI(c.name, q)
    \/ NullableContainsCI(c.one_liner, q)
    \/ NullableContainsCI(c.long_description, q)
    \/ ContainsCI(c.search_text, q)

KeywordMatchSet(params) ==
    {i \in 1..Len(companies) :
        /\ (NonBlank(params.query) => SubstringMatch(companies[i], Trim(params.query)))
        /\ buildFilterWhereClause(params.filters, companies[i])}

\* C4 (as claimed): keywordSearch's total is the number of companies whose name,
\* one_liner, long_description or search_text contains the query as a
\* case-insensitive substring and that pass the filter predicate; the total is the
\* same for every page and pageSize, and a page holds at most pageSize results.
C4_KeywordTotalCountsSubstringMatches ==
    call.op = "keywordSearch" =>
        /\ call.result.total = Cardinality(KeywordMatchSet(call.params))
        /\ \A page \in 1..MaxPage, pageSize \in 1..MaxPageSize :
              \A scan \in Scans(KeywordRows(call.params)) :
                  keywordSearch([call.params EXCEPT !.page = page, !.pageSize = pageSize],
                                scan).total = call.result.total
        /\ Len(call.result.results) <= call.params.pageSize

SemanticAnswered ==
    /\ call.op = "semanticSearch"
    /\ NonBlank(call.params.query)
    /\ ~IsThrown(call.result)

\* C5: for a non-blank query the results of semanticSearch are in non-increasing
\* order of score, before and after rounding to 4 decimals, and a page holds at
\* most pageSize results.
C5_SemanticResultsSortedByScore ==
    SemanticAnswered =>
        LET results == call.result.results
            qv == AnswerVector(call.answer)
        IN  /\ \A k \in 1..(Len(results) - 1) :
                  /\ ~ScoreLess(ScoreOf(qv, results[k].id), ScoreOf(qv, results[k + 1].id))
                  /\ results[k].score >= results[k + 1].score
            /\ Len(results) <= call.params.pageSize

\* C5 witness: a page of two results whose scores differ and whose order is not
\* the table's order
C5_Witness ==
    /\ SemanticAnswered
    /\ Len(call.result.results) = 2
    /\ call.result.results[1].score > call.result.results[2].score
    /\ call.result.results[1].id > call.result.results[2].id

\* the whole ranked list of a call whose statement visits the rows in the order
\* scan, read as one page
FullRanking(scan) ==
    semanticSearch([call.params EXCEPT !.page = 1, !.pageSize = Len(companies) + 1],
                   AnswerVector(call.answer), scan).results

\* C6: for a non-blank query semanticSearch's total is the number of companies
\* that pass the filter predicate and have an embedding row, whatever the page,
\* and the results are the elements (page-1)*pageSize .. (page-1)*pageSize+pageSize-1
\* of the full ranked list (none when the offset is past its end).  The ranked
\* list is the one of the call: the rows in the order its statement returned them,
\* sorted by score.
C6_SemanticTotalAndPageWindow ==
    SemanticAnswered =>
        LET results == call.result.results
            offset == (call.params.page - 1) * call.params.pageSize
            scoredSet == {i \in 1..Len(companies) :
                            HasEmbedding(i) /\ buildFilterWhereClause(call.params.filters, companies[i])}
        IN  /\ call.result.total = Cardinality(scoredSet)
            /\ Len(results) = Max(0, Min(call.params.pageSize, Cardinality(scoredSet) - offset))
            /\ \E scan \in Scans(FilterRows(call.params.filters)) :
                  \A k \in 1..Len(results) : results[k] = FullRanking(scan)[offset + k]

\* C6 witness: a second page that is shorter than the total and not empty
C6_Witness ==
    /\ SemanticAnswered
    /\ call.params.page = 2
    /\ Len(call.result.results) = 1
    /\ call.result.total = 2

\* C7 (as claimed): semanticSearch with an empty or blank query returns total 0
\* and no results, echoing page and pageSize, without calling the provider.
C7_BlankSemanticQueryIsEmpty ==
    (call.op = "semanticSearch" /\ ~NonBlank(call.params.query)) =>
        /\ IsNull(call.answer)
        /\ call.result.total = 0
        /\ call.result.results = <<>>
        /\ call.result.page = call.params.page
        /\ call.result.pageSize = call.params.pageSize

\* C8 (as claimed): for every query text getSemanticTopCompanyIds(params, K)
\* returns the ids, in order, of the first K results of semanticSearch for the
\* same query, filters and provider answer (page 1, pageSize K), in whichever
\* order the statement of semanticSearch visits the rows.
C8_TopIdsAreSemanticFirstPage ==
    (call.op = "getSemanticTopCompanyIds" /\ ~IsThrown(call.result)) =>
        \A scan \in Scans(FilterRows(call.params.filters)) :
            call.result.ids =
                Ids(semanticSearch([call.params EXCEPT !.page = 1, !.pageSize = call.limit],
                                   AnswerVector(call.answer), scan).results)

NoActiveDimension(filters) ==
    /\ filters.tags = <<>> /\ filters.industries = <<>> /\ filters.batches = <<>>
    /\ filters.years = <<>> /\ filters.stages = <<>> /\ filters.regions = <<>>
    /\ ~filters.isHiring /\ ~filters.nonprofit /\ ~filters.topCompany

\* C9: with every multi-valued dimension empty and the three flags false the
\* filter predicate accepts every company, so keywordSearch with an empty query
\* has total equal to the corpus size.
C9_EmptyFilterAcceptsAll ==
    (call.op = "keywordSearch" /\ NoActiveDimension(call.params.filters)) =>
        /\ \A i \in 1..Len(companies) : buildFilterWhereClause(call.params.filters, companies[i])
        /\ (~NonBlank(call.params.query) => call.result.total = Len(companies))

\* C9 witness: an unfiltered empty-query search over a full corpus holding a
\* company with none of the three flags set
C9_Witness ==
    /\ call.op = "keywordSearch"
    /\ NoActiveDimension(call.params.filters)
    /\ call.params.query = <<>>
    /\ call.result.total = MaxCompanies
    /\ \E i \in 1..Len(companies) :
          companies[i].is_hiring = 0 /\ companies[i].nonprofit = 0 /\ companies[i].top_company = 0

\* the number of non-empty dimensions among the six multi-valued ones
ActiveDimensions(filters) ==
    Cardinality({d \in {"tags", "industries", "batches", "years", "stages", "regions"} :
                    filters[d] # <<>>})

NullableIn(column, values) == ~IsNull(column) /\ Val(column) \in Range(values)

\* one of the company's own values on the active dimension is requested
OwnValueRequested(filters, c) ==
    /\ (filters.tags # <<>> => Range(c.tags) \cap Range(filters.tags) # {})
    /\ (filters.regions # <<>> => Range(c.regions) \cap Range(filters.regions) # {})
    /\ (filters.stages # <<>> => NullableIn(c.stage, filters.stages))
    /\ (filters.batches # <<>> => NullableIn(c.batch, filters.batches))
    /\ (filters.years # <<>> =>
            (~IsNull(c.launched_at) /\ UtcYear(Val(c.launched_at)) \in Range(filters.years)))
    /\ (filters.industries # <<>> =>
            (NullableIn(c.industry, filters.industries)
                \/ Range(c.industries) \cap Range(filters.industries) # {}))

SingleDimensionSearch ==
    /\ call.op = "keywordSearch"
    /\ call.params.query = <<>>
    /\ ActiveDimensions(call.params.filters) = 1
    /\ ~call.params.filters.isHiring
    /\ ~call.params.filters.nonprofit
    /\ ~call.params.filters.topCompany

\* C10: with exactly one non-empty dimension the matching companies are a subset
\* of the unfiltered ones, and a company matches if and only if one of its own
\* values on that dimension is requested (for industries: its primary industry or
\* an entry of its industries list).
C10_SingleDimensionFilter ==
    SingleDimensionSearch =>
        LET filters == call.params.filters
            unfiltered == keywordSearch([call.params EXCEPT !.filters = EmptyFilters,
                                            !.page = 1, !.pageSize = Len(companies) + 1],
                                        RowidScan)
        IN  /\ \A i \in 1..Len(companies) :
                  buildFilterWhereClause(filters, companies[i]) <=> OwnValueRequested(filters, companies[i])
            /\ call.result.total =
                  Cardinality({i \in 1..Len(companies) : OwnValueRequested(filters, companies[i])})
            /\ call.result.total <= unfiltered.total
            /\ \A k \in 1..Len(call.result.results) :
                  /\ call.result.results[k].id \in Range(Ids(unfiltered.results))
                  /\ OwnValueRequested(filters, companies[call.result.results[k].id])

\* C10 witness: an industries filter returns a company that carries the value
\* only in its primary industry field, and leaves another company out
C10_Witness ==
    /\ SingleDimensionSearch
    /\ call.params.filters.industries = <<"Fintech">>
    /\ call.result.total = 1
    /\ Len(companies) = 2
    /\ \E k \in 1..Len(call.result.results) :
          LET c == companies[call.result.results[k].id]
          IN  c.industry = Some("Fintech") /\ c.industries = <<>>

(***************************************************************************)
(* Batch analytics                                                         *)
(***************************************************************************)
\* the label of a missing batch, and the category of a company without one
Unspecified == <<"U", "n", "s", "p", "e", "c", "i", "f", "i", "e", "d">>

RECURSIVE DigitsValue(_)
\* Number("2021")
DigitsValue(digits) ==
    IF digits = <<>> THEN 0
    ELSE 10 * DigitsValue(SubSeq(digits, 1, Len(digits) - 1))
            + (CharCode(digits[Len(digits)]) - 48)

AllDigits(text) == \A i \in 1..Len(text) : IsDigit(text[i])

\* /^([WSF])(\d{2})$/i
IsCompactBatch(batch) ==
    /\ Len(batch) = 3
    /\ LowerChar(batch[1]) \in {"w", "s", "f"}
    /\ AllDigits(SubSeq(batch, 2, 3))

SeasonNames ==
    {<<"w", "i", "n", "t", "e", "r">>, <<"s", "p", "r", "i", "n", "g">>,
     <<"s", "u", "m", "m", "e", "r">>, <<"f", "a", "l", "l">>}

\* /^(Winter|Spring|Summer|Fall)\s+(\d{4})$/i with the season it captured
NamedBatchSeasons(batch) ==
    {season \in SeasonNames :
        /\ Len(batch) >= Len(season) + 5
        /\ ToLower(SubSeq(batch, 1, Len(season))) = season
        /\ \A i \in (Len(season) + 1)..(Len(batch) - 4) : batch[i] \in WhiteSpace
        /\ AllDigits(SubSeq(batch, Len(batch) - 3, Len(batch)))}

batchSortKey(batch) ==
    IF IsCompactBatch(batch)
    THEN [year |-> Some(2000 + DigitsValue(SubSeq(batch, 2, 3))),
          seasonOrder |-> IF LowerChar(batch[1]) = "w" THEN 1
                          ELSE IF LowerChar(batch[1]) = "s" THEN 2 ELSE 3]
    ELSE IF NamedBatchSeasons(batch) # {}
    THEN LET season == CHOOSE s \in NamedBatchSeasons(batch) : TRUE
         IN  [year |-> Some(DigitsValue(SubSeq(batch, Len(batch) - 3, Len(batch)))),
              seasonOrder |-> IF season = <<"w", "i", "n", "t", "e", "r">> THEN 1
                              ELSE IF season = <<"s", "p", "r", "i", "n", "g">> THEN 2
                              ELSE IF season = <<"s", "u", "m", "m", "e", "r">> THEN 3 ELSE 4]
    ELSE [year |-> NULL, seasonOrder |-> 99]

\* tags[0] ?? "Unspecified" , industries[0] ?? "Unspecified"
firstCategory(c, colorBy) ==
    LET list == IF colorBy = "tags" THEN c.tags ELSE c.industries
    IN  IF list = <<>> THEN "Unspecified" ELSE list[1]

RECURSIVE FirstSeenFrom(_, _)
FirstSeenFrom(seen, rest) ==
    IF rest = <<>> THEN seen
    ELSE IF Head(rest) \in Range(seen) THEN FirstSeenFrom(seen, Tail(rest))
    ELSE FirstSeenFrom(Append(seen, Head(rest)), Tail(rest))

\* the keys of a Map in insertion order
FirstSeen(s) == FirstSeenFrom(<<>>, s)

\* the number of positions of s holding v: what a counter incremented per row reaches
CountOf(s, v) == Cardinality({k \in 1..Len(s) : s[k] = v})

\* the candidate rows: the id subset when one is given, else the keyword filter
\* variant: an empty subset is treated like an absent one
AnalyticsRowsEmptyAsAbsent(params, subset, scan) ==
    LET n == Len(companies)
    IN  IF ~IsNull(subset) /\ Len(Val(subset)) > 0
            THEN SelectIdx(1, n, [i \in 1..n |-> i \in Range(Val(subset))])
        ELSE TableScan(scan, [i \in 1..n |-> KeywordWhere(params, companies[i])])

\* WHERE c.id IN (...) looks the ids up in the rowid and returns them ascending;
\* the rows of the keyword filter come in the order of the scan
AnalyticsRows(params, subset, scan) ==
    LET n == Len(companies)
    IN  IF ~IsNull(subset) /\ Len(Val(subset)) > 0
            THEN SelectIdx(1, n, [i \in 1..n |-> i \in Range(Val(subset))])
        ELSE IF ~IsNull(subset) THEN <<>>
        ELSE TableScan(scan, [i \in 1..n |-> KeywordWhere(params, companies[i])])

\* the order in which String.prototype.localeCompare puts the characters at its
\* first level (the root collation of ICU): white space, punctuation, symbols,
\* the currency sign, digits, letters; a letter and its capital share a place
CollationOrder ==
    << "\t", "\n", "vtab", "\f", "\r", " ",
       "_", "-", ",", ";", ":", "!", "?", ".", "quote", "dquote", "(", ")", "[", "]", "{", "}",
       "@", "*", "/", "backslash", "&", "#", "%",
       "grave", "^", "+", "<", "=", ">", "|", "~", "$",
       "0", "1", "2", "3", "4", "5", "6", "7", "8", "9",
       "a", "b", "c", "d", "e", "f", "g", "h", "i", "j", "k", "l", "m",
       "n", "o", "p", "q", "r", "s", "t", "u", "v", "w", "x", "y", "z" >>

CollationRanks ==
    [ch \in Chars |-> CHOOSE i \in 1..Len(CollationOrder) : CollationOrder[i] = LowerChar(ch)]

RECURSIVE PrimaryCmp(_, _)
\* first level: the characters' places, capitals taken as small letters
PrimaryCmp(s, t) ==
    IF s = <<>> THEN (IF t = <<>> THEN 0 ELSE -1)
    ELSE IF t = <<>> THEN 1
    ELSE IF CollationRanks[Head(s)] < CollationRanks[Head(t)] THEN -1
    ELSE IF CollationRanks[Head(s)] > CollationRanks[Head(t)] THEN 1
    ELSE PrimaryCmp(Tail(s), Tail(t))

RECURSIVE CaseCmp(_, _)
\* third level, for texts equal at the first: at the first place where the case
\* differs the small letter comes first
CaseCmp(s, t) ==
    IF s = <<>> \/ t = <<>> THEN 0
    ELSE IF Head(s) = Head(t) THEN CaseCmp(Tail(s), Tail(t))
    ELSE IF IsUpper(Head(t)) THEN -1 ELSE 1

\* s.localeCompare(t): -1, 0, 1
localeCompare(s, t) ==
    IF PrimaryCmp(s, t) # 0 THEN PrimaryCmp(s, t) ELSE CaseCmp(s, t)

BatchOf(id) == IF IsNull(companies[id].batch) THEN Unspecified ELSE Val(companies[id].batch)

\* left.year ?? MAX_SAFE_INTEGER compared with right's, then seasonOrder, then the label
BatchBefore(left, right) ==
    LET kl == batchSortKey(left)
        kr == batchSortKey(right)
        years == IF IsNull(kl.year) THEN (IF IsNull(kr.year) THEN 0 ELSE 1)
                 ELSE IF IsNull(kr.year) THEN -1
                 ELSE IF Val(kl.year) < Val(kr.year) THEN -1
                 ELSE IF Val(kl.year) > Val(kr.year) THEN 1 ELSE 0
        seasons == IF kl.seasonOrder < kr.seasonOrder THEN -1
                   ELSE IF kl.seasonOrder > kr.seasonOrder THEN 1 ELSE 0
    IN  Lex3(years, seasons, localeCompare(left, right)) < 0

\* the batch labels of the candidate rows, sorted chronologically
SortedBatches(rows) ==
    LET labels == FirstSeen([k \in 1..Len(rows) |-> BatchOf(rows[k])])
        n == Len(labels)
        order == SortStable([k \in 1..n |-> k],
                    [i \in 1..n |-> [j \in 1..n |-> BatchBefore(labels[i], labels[j])]])
    IN  [k \in 1..n |-> labels[order[k]]]

\* the topN most frequent categories of the candidate rows
TopCategories(rows, colorBy, topN) ==
    IF colorBy = "none" THEN <<>>
    ELSE LET cats == [k \in 1..Len(rows) |-> firstCategory(companies[rows[k]], colorBy)]
             keys == FirstSeen(cats)
             n == Len(keys)
             order == SortStable([k \in 1..n |-> k],
                        [i \in 1..n |-> [j \in 1..n |->
                            CountOf(cats, keys[i]) > CountOf(cats, keys[j])]])
         IN  [k \in 1..Min(topN, n) |-> keys[order[k]]]

\* row[key] = value on a JavaScript object literal: the key __proto__ names the
\* prototype accessor, which ignores a number and adds no property
Put(row, key, value) ==
    IF key = "__proto__" THEN row
    ELSE [k \in (DOMAIN row) \cup {key} |-> IF k = key THEN value ELSE row[k]]

\* batchAggregate.categoryCounts.get(category) ?? 0
CategoryCount(rows, batch, colorBy, category) ==
    Cardinality({k \in 1..Len(rows) :
        BatchOf(rows[k]) = batch /\ firstCategory(companies[rows[k]], colorBy) = category})

RECURSIVE AssignCategories(_, _, _, _, _, _)
\* the loop over topCategories: [the row, assigned] after the categories from i on
AssignCategories(acc, i, top, rows, batch, colorBy) ==
    IF i > Len(top) THEN acc
    ELSE LET value == CategoryCount(rows, batch, colorBy, top[i])
         IN  AssignCategories([row |-> Put(acc.row, top[i], value),
                               assigned |-> acc.assigned + value],
                              i + 1, top, rows, batch, colorBy)

ChartRow(rows, batch, colorBy, top) ==
    LET total == CountOf([k \in 1..Len(rows) |-> BatchOf(rows[k])], batch)
        row == Put(Put(Put(<<>>, "batch", batch), "year", batchSortKey(batch).year),
                   "total", total)
        done == AssignCategories([row |-> row, assigned |-> 0], 1, top, rows, batch, colorBy)
    IN  IF colorBy = "none" THEN row
        ELSE Put(done.row, "Other", Max(0, total - done.assigned))

getBatchAnalytics(params, colorBy, topN, subset, scan) ==
    LET rows == AnalyticsRows(params, subset, scan)
        sortedBatches == SortedBatches(rows)
        topCategories == TopCategories(rows, colorBy, topN)
    IN  [colorBy |-> colorBy,
         totalCompanies |-> Len(rows),
         series |-> IF colorBy = "none" THEN <<"total">> ELSE Append(topCategories, "Other"),
         rows |-> [k \in 1..Len(sortedBatches) |->
                      ChartRow(rows, sortedBatches[k], colorBy, topCategories)]]

(***************************************************************************)
(* The analytics specification                                             *)
(***************************************************************************)
MaxAnalyticsCompanies == 3

MaxTopN == 2

BaseRow ==
    [name |-> <<"A", "b">>, one_liner |-> NULL, long_description |-> NULL,
     search_text |-> <<>>, batch |-> NULL, stage |-> NULL, industry |-> NULL,
     launched_at |-> NULL, team_size |-> NULL, is_hiring |-> 0, nonprofit |-> 0,
     top_company |-> 0, tags |-> <<>>, industries |-> <<>>, regions |-> <<>>]

\* company rows the analytics corpora are drawn from; tags are free text, so a
\* first tag may be "total", "Other" or "year"; batch labels are compact, named,
\* missing, or of neither form
AnalyticsPool == <<
    [BaseRow EXCEPT !.batch = Some(<<"W", "2", "1">>), !.tags = <<"ai">>,
                    !.industries = <<"B2B">>],
    [BaseRow EXCEPT !.batch = Some(<<"W", "2", "1">>), !.tags = <<"total", "ai">>,
                    !.industries = <<"Fintech">>, !.name = <<"b">>],
    [BaseRow EXCEPT !.batch = Some(<<"S", "2", "1">>), !.tags = <<"Other">>,
                    !.industries = <<"B2B", "Fintech">>],
    [BaseRow EXCEPT !.tags = <<"fintech">>],
    [BaseRow EXCEPT !.batch = Some(<<"S", "u", "m", "m", "e", "r", " ", "2", "0", "2", "1">>),
                    !.tags = <<"ai">>, !.industries = <<"Fintech">>],
    [BaseRow EXCEPT !.batch = Some(<<"F", "a", "l", "l", " ", "2", "0", "2", "0">>),
                    !.tags = <<"year">>, !.name = <<"b">>],
    [BaseRow EXCEPT !.batch = Some(<<"F", "2", "1">>), !.tags = <<"ai">>],
    [BaseRow EXCEPT !.batch = Some(<<"X", "2", "5">>), !.tags = <<"fintech">>,
                    !.industries = <<"B2B">>] >>

ColorBys == {"none", "tags", "industries"}

\* companyIdSubset: not given, empty, or a list of ids (repeated, or of no company)
IdSubsets == {NULL, Some(<<>>), Some(<<1>>), Some(<<2, 1, 2>>), Some(<<3, 9>>)}

AnalyticsParams ==
    {[query |-> q, page |-> 1, pageSize |-> 1, sort |-> "relevance", filters |-> f] :
        q \in {<<>>, <<"a">>},
        f \in {EmptyFilters, [EmptyFilters EXCEPT !.tags = <<"ai">>],
                [EmptyFilters EXCEPT !.years = <<2019>>]}}

InitAnalytics ==
    /\ \E n \in 0..MaxAnalyticsCompanies : \E pick \in [1..n -> 1..Len(AnalyticsPool)] :
          /\ companies = [i \in 1..n |-> AnalyticsPool[pick[i]]]
          /\ company_embeddings = [i \in 1..n |-> NULL]
    /\ call = [op |-> "none"]
    /\ CacheIdle
    /\ NoBackground

\* a call of getBatchAnalytics(params, colorBy, topN, companyIdSubset) with
\* params of its declared type SearchParams, whose filters hold every field,
\* batches included: the subset is the list a semantic search gives, or is left
\* out, and then the candidates come from the query and the filters of params
GetBatchAnalytics ==
    /\ Idle
    /\ \E colorBy \in ColorBys, topN \in 1..MaxTopN, subset \in IdSubsets :
        \E params \in AnalyticsParams :
          \E scan \in Scans(KeywordRows(params)) :
            /\ call' = [op |-> "getBatchAnalytics", params |-> params, colorBy |-> colorBy,
                        topN |-> topN, subset |-> subset,
                        result |-> getBatchAnalytics(params, colorBy, topN, subset, scan)]
            /\ UNCHANGED <<companies, company_embeddings, now, projectionCache, dirty, lastPoints, background>>

\* the search specification serves every read request of the search module
NextSearch ==
    KeywordSearch \/ SemanticSearch \/ GetSemanticTopCompanyIds \/ GetBatchAnalytics \/ Respond

SpecSearch == InitSearch /\ [][NextSearch]_vars

\* the filter predicate alone: listings without search text
SpecFilter == InitSearch /\ [][BrowseCompanies \/ Respond]_vars

\* the pager alone: the pages of a listing
SpecPaging == InitSearch /\ [][BrowsePages \/ Respond]_vars

\* the search functions without search text for keywordSearch: listings,
\* semantic searches with their top ids, and getBatchAnalytics
NextBrowse ==
    BrowseCompanies \/ SemanticSearch \/ GetSemanticTopCompanyIds \/ GetBatchAnalytics \/ Respond

SpecBrowse == InitSearch /\ [][NextBrowse]_vars

RECURSIVE SumFields(_, _)
\* the sum of the row's fields named by the categories; a field the row does
\* not have adds nothing
SumFields(row, categories) ==
    IF categories = <<>> THEN 0
    ELSE (IF Head(categories) \in DOMAIN row THEN row[Head(categories)] ELSE 0)
            + SumFields(row, Tail(categories))

\* C1 (as claimed): with colorBy tags or industries every batch row satisfies
\* sum of its fields named by the top categories + Other = total, Other >= 0, and
\* total = the number of candidate companies in that batch, whatever the category
\* names are.
C1_RowCategoriesSumToTotal ==
    (call.op = "getBatchAnalytics" /\ call.colorBy # "none") =>
        LET candidates == AnalyticsRows(call.params, call.subset, RowidScan)
            batches == SortedBatches(candidates)
            top == SubSeq(call.result.series, 1, Len(call.result.series) - 1)
        IN  \A k \in 1..Len(call.result.rows) :
                LET row == call.result.rows[k]
                IN  /\ SumFields(row, top) + row["Other"] = row["total"]
                    /\ row["Other"] >= 0
                    /\ row["total"] =
                          Cardinality({j \in 1..Len(candidates) : BatchOf(candidates[j]) = batches[k]})

(***************************************************************************)
(* PCA projection (snapshot-utils.ts), in the doubles of the code           *)
(***************************************************************************)
\* powerIteration(centered, 14)
PcaIterations == 14

\* toFixed(6): coordinates are rounded to millionths
CoordinateScale == 1000000

\* the integer nearest to |x| * CoordinateScale, the larger one of two nearest
NearestMillionth(x) ==
    NatShr(NatAdd(NatMul(x.m, NatFrom(2 * CoordinateScale)), NatShl(<<1>>, 0 - x.e)), 1 - x.e)

\* Number(value.toFixed(6)): a number without a fraction is written out in full
\* and read back as it is, NaN and the infinities are written by their names,
\* and -0 is written as 0.000000
ToFixed6(x) ==
    IF ~IsFinite(x) THEN x
    ELSE IF IsZero(x) THEN F64Zero(FALSE)
    ELSE IF x.e >= 0 THEN x
    ELSE F64Ratio(x.neg, NearestMillionth(x), NatFrom(CoordinateScale))

\* JSON.parse of an array of integer literals
Doubles(items) == [j \in 1..Len(items) |-> F64FromInt(items[j])] \o <<>>

\* a[j] for the 1-based j: undefined beyond the array, which is NaN in arithmetic
At(a, j) == IF j <= Len(a) THEN a[j] ELSE F64NaN

RECURSIVE DotFrom(_, _, _, _)
\* for (i ...) total += a[i] * b[i]
DotFrom(a, b, i, total) ==
    IF i > Len(a) THEN total
    ELSE DotFrom(a, b, i + 1, F64Add(total, F64Mul(a[i], At(b, i))))

dot(a, b) == DotFrom(a, b, 1, F64Zero(FALSE))

norm(values) == F64Sqrt(dot(values, values))

\* valueNorm || 1: 0 and NaN are falsy
OrOne(valueNorm) == IF valueNorm.m = <<>> /\ valueNorm.e < 2 THEN F64FromInt(1) ELSE valueNorm

DividedBy(values, valueNorm) ==
    [i \in 1..Len(values) |-> F64Div(values[i], valueNorm)] \o <<>>

normalize(values) == DividedBy(values, OrOne(norm(values)))

RECURSIVE RowTimesVector(_, _, _, _)
\* for (j < d) sum += row[j] * vector[j]
RowTimesVector(row, vector, j, sum) ==
    IF j > Len(vector) THEN sum
    ELSE RowTimesVector(row, vector, j + 1, F64Add(sum, F64Mul(At(row, j), vector[j])))

matVecCentered(embeddings, vector) ==
    [i \in 1..Len(embeddings) |-> RowTimesVector(embeddings[i], vector, 1, F64Zero(FALSE))] \o <<>>

RECURSIVE ColumnTimesValues(_, _, _, _, _)
\* for (i < n) output[j] += row[j] * scale
ColumnTimesValues(embeddings, values, j, i, output) ==
    IF i > Len(embeddings) THEN output
    ELSE ColumnTimesValues(embeddings, values, j, i + 1,
                           F64Add(output, F64Mul(At(embeddings[i], j), values[i])))

\* embeddings[0]?.length ?? 0
Dimension(embeddings) == IF embeddings = <<>> THEN 0 ELSE Len(embeddings[1])

transposeMatVec(embeddings, values) ==
    [j \in 1..Dimension(embeddings) |->
        ColumnTimesValues(embeddings, values, j, 1, F64Zero(FALSE))] \o <<>>

\* vector[i] -= projection * orthogonalTo[i]
Deflated(vector, orthogonalTo, projection) ==
    [i \in 1..Len(vector) |->
        F64Sub(vector[i], F64Mul(projection, At(orthogonalTo, i)))] \o <<>>

\* the rest of the loop body of powerIteration once vector is transposeMatVec(...)
PowerStepFrom(vector, orthogonalTo) ==
    IF IsNull(orthogonalTo) THEN normalize(vector)
    ELSE normalize(Deflated(vector, Val(orthogonalTo), dot(vector, Val(orthogonalTo))))

\* one pass of the loop body of powerIteration
PowerStep(embeddings, vector, orthogonalTo) ==
    PowerStepFrom(transposeMatVec(embeddings, matVecCentered(embeddings, vector)), orthogonalTo)

RECURSIVE PowerLoop(_, _, _, _)
\* a vector that a pass leaves as it is is what every remaining pass returns
PowerNext(embeddings, vector, next, steps, orthogonalTo) ==
    IF next = vector THEN vector ELSE PowerLoop(embeddings, next, steps - 1, orthogonalTo)

PowerLoop(embeddings, vector, steps, orthogonalTo) ==
    IF steps = 0 THEN vector
    ELSE PowerNext(embeddings, vector, PowerStep(embeddings, vector, orthogonalTo), steps,
                   orthogonalTo)

\* 0.5
Half == F64Div(F64FromInt(1), F64FromInt(2))

\* the seed is 1 at every third index (0-based) and 0.5 elsewhere
Seed(d) == [j \in 1..d |-> IF (j - 1) % 3 = 0 THEN F64FromInt(1) ELSE Half] \o <<>>

powerIteration(embeddings, iterations, orthogonalTo) ==
    PowerLoop(embeddings, Seed(Dimension(embeddings)), iterations, orthogonalTo)

RECURSIVE ColumnSum(_, _, _, _)
\* for (vector of vectors) means[j] += vector[j]
ColumnSum(vectors, j, i, mean) ==
    IF i > Len(vectors) THEN mean
    ELSE ColumnSum(vectors, j, i + 1, F64Add(mean, At(vectors[i], j)))

\* means[j] /= vectors.length, over the dimension of the first vector
Means(vectors) ==
    [j \in 1..Len(vectors[1]) |->
        F64Div(ColumnSum(vectors, j, 1, F64Zero(FALSE)), F64FromInt(Len(vectors)))] \o <<>>

Centered(vectors, means) ==
    [i \in 1..Len(vectors) |->
        [j \in 1..Len(vectors[i]) |-> F64Sub(vectors[i][j], At(means, j))] \o <<>>] \o <<>>

\* subtract the per-dimension mean; the dimension is that of the first vector
centerEmbeddings(vectors) == IF vectors = <<>> THEN vectors ELSE Centered(vectors, Means(vectors))

\* JSON.parse(row.vector) is an array of more than one element
Plottable(row) == row.vector.kind = "array" /\ Len(row.vector.items) > 1

\* the rows whose vector parses to an array of more than one element: the labels
\* are their ids and names, the vectors their parsed arrays
parseEmbeddingRows(rows) == SelectSeq(rows, Plottable)

VectorsOf(items) == [k \in 1..Len(items) |-> Doubles(items[k])] \o <<>>

\* x: Number(xValues[index].toFixed(6)), y: Number(yValues[index].toFixed(6))
Rounded(xValues, yValues) ==
    [k \in 1..Len(xValues) |-> [x |-> ToFixed6(xValues[k]), y |-> ToFixed6(yValues[k])]] \o <<>>

ProjectOnto(centered, component1) ==
    Rounded(matVecCentered(centered, component1),
            matVecCentered(centered, powerIteration(centered, PcaIterations, Some(component1))))

Projected(centered) == ProjectOnto(centered, powerIteration(centered, PcaIterations, NULL))

\* the x and y of computePcaProjection for the parsed vectors, in their order
Coordinates(items) ==
    IF items = <<>> THEN <<>> ELSE Projected(centerEmbeddings(VectorsOf(items)))

\* the companies of the cache specification
CacheCompanies ==
    <<[BaseRow EXCEPT !.name = <<"a">>], [BaseRow EXCEPT !.name = <<"b">>],
      [BaseRow EXCEPT !.name = <<"c">>]>>

\* the vectors sync-embed may store for a company: what the provider returns for
\* its embedding text, or [] when the response holds no embedding
\* (response.data[0]?.embedding ?? [])
EmbedVectors(id) ==
    IF id = 1 THEN {<<2, 0>>, <<0, 2>>}
    ELSE IF id = 2 THEN {<<1, 1>>}
    ELSE {<<1, 2>>, <<>>}

\* the ids of a set of companies in ascending order
Ascending(ids) ==
    SelectIdx(1, Len(CacheCompanies), [i \in 1..Len(CacheCompanies) |-> i \in ids])

\* the lists of parsed vectors the rows of those companies can give
PoolVectorLists ==
    UNION {{[k \in 1..Cardinality(ids) |-> choice[Ascending(ids)[k]]] :
               choice \in {c \in [ids -> PoolVectors] :
                              \A i \in ids : c[i] \in EmbedVectors(i) /\ Len(c[i]) > 1}} :
           ids \in SUBSET (1..Len(CacheCompanies))}

\* the coordinates of every one of them, computed once
PoolCoordinates ==
    {[items |-> items, coordinates |-> Coordinates(items)] : items \in PoolVectorLists}

\* Coordinates(items), looked up for a list of the pool
CoordinatesOf(items) ==
    IF items \in PoolVectorLists
    THEN (CHOOSE p \in PoolCoordinates : p.items = items).coordinates
    ELSE Coordinates(items)

ItemsOf(labels) == [k \in 1..Len(labels) |-> labels[k].vector.items] \o <<>>

\* labels.map((label, index) => ({ id, name, x, y }))
PointsOf(labels, coordinates) ==
    [k \in 1..Len(labels) |->
        [id |-> labels[k].id, name |-> labels[k].name,
         x |-> coordinates[k].x, y |-> coordinates[k].y]] \o <<>>

\* rows is what the second statement of loadProjection returned: id, name and
\* vector of every embedding row, in the order of the statement
computePcaProjection(rows) ==
    PointsOf(parseEmbeddingRows(rows), CoordinatesOf(ItemsOf(parseEmbeddingRows(rows))))

(***************************************************************************)
(* The projection cache                                                    *)
(***************************************************************************)
MaxOf(S) == CHOOSE m \in S : \A x \in S : x <= m

\* the rows of company_embeddings; each has its company
EmbeddingIds == {i \in 1..Len(companies) : HasEmbedding(i)}

\* the first statement of loadProjection:
\* CAST(COUNT(*) AS TEXT) || '-' || COALESCE(MAX(updated_at), 'none'): the count
\* and the latest timestamp, which the text determines and is determined by
Signature ==
    [count |-> Cardinality(EmbeddingIds),
     latest |-> IF EmbeddingIds = {} THEN NULL
                ELSE Some(MaxOf({Val(company_embeddings[i]).updated_at : i \in EmbeddingIds}))]

\* the second statement of loadProjection: SELECT c.id, c.name, e.vector FROM
\* company_embeddings e INNER JOIN companies c ON c.id = e.company_id.  Both
\* tables are walked along their INTEGER PRIMARY KEY, whichever is the outer one
EmbeddingRowsIn(at) ==
    [k \in 1..Len(at) |->
        [id |-> at[k], name |-> companies[at[k]].name, vector |-> StoredVector(at[k])]]

EmbeddingRows ==
    EmbeddingRowsIn(SelectIdx(1, Len(companies), [i \in 1..Len(companies) |-> HasEmbedding(i)]))

\* projectionCache && projectionCache.signature === signature
CacheHit(cache, signature) == ~IsNull(cache) /\ Val(cache).signature = signature

\* loadProjection: the points it returns and the cache it leaves, for the
\* signature its first statement read and the rows its second statement read.
\* The second statement runs only when the cache misses
loadProjection(cache, signature, rows) ==
    IF CacheHit(cache, signature)
    THEN [points |-> Val(cache).points, cache |-> cache, recomputed |-> FALSE]
    ELSE [points |-> computePcaProjection(rows),
          cache |-> Some([signature |-> signature, points |-> computePcaProjection(rows)]),
          recomputed |-> TRUE]

\* the first statement of getSimilarCompanies:
\* SELECT vector FROM company_embeddings WHERE company_id = @id
TargetVector(companyId) ==
    IF companyId \in 1..Len(companies) /\ HasEmbedding(companyId)
    THEN Some(StoredVector(companyId))
    ELSE NULL

\* !target?.vector: no row, or a row whose vector is the empty text
NoVector(target) == IsNull(target) \/ Val(target).kind = "empty"

\* getSimilarCompanies returns or throws before its second statement
ReturnsBeforeCandidates(target) == NoVector(target) \/ JsonParseThrows(Val(target))

\* the second statement of getSimilarCompanies: FROM companies c INNER JOIN
\* company_embeddings e ... WHERE c.id != @id, in the order of the scan
SimilarCandidates(companyId, scan) ==
    TableScan(scan, [i \in 1..Len(companies) |-> HasEmbedding(i) /\ i # companyId])

\* the second statement without its WHERE
EmbeddedCompanies(companyId, scan) ==
    TableScan(scan, [i \in 1..Len(companies) |-> HasEmbedding(i)])

\* variant: the target company is left among the candidates
getSimilarCompaniesKeepingTarget(companyId, limit, target, scan) ==
    IF NoVector(target) THEN [ids |-> <<>>]
    ELSE IF JsonParseThrows(Val(target)) THEN Thrown("SyntaxError")
    ELSE IF \E i \in Range(EmbeddedCompanies(companyId, scan)) : JsonParseThrows(StoredVector(i))
        THEN Thrown("SyntaxError")
    ELSE [ids |-> Slice(RankByScore(EmbeddedCompanies(companyId, scan), Val(target).items),
                        0, limit)]

\* company-details.ts: the ids of the limit nearest companies by cosine
\* similarity.  target is what the first statement read and scan the order in
\* which the second statement, run now, returns the candidates: the sort leaves
\* candidates whose similarities are equal doubles in that order
getSimilarCompanies(companyId, limit, target, scan) ==
    IF NoVector(target) THEN [ids |-> <<>>]
    ELSE IF JsonParseThrows(Val(target)) THEN Thrown("SyntaxError")
    ELSE IF \E i \in Range(SimilarCandidates(companyId, scan)) : JsonParseThrows(StoredVector(i))
        THEN Thrown("SyntaxError")
    ELSE [ids |-> Slice(RankByScore(SimilarCandidates(companyId, scan), Val(target).items),
                        0, limit)]

\* points.find((point) => point.id === companyId)
HasPoint(points, companyId) == \E k \in 1..Len(points) : points[k].id = companyId

\* points.filter((point) => point.id === companyId || similarIds.has(point.id))
KeptPoints(points, companyId, ids) ==
    SelectIdx(1, Len(points), [k \in 1..Len(points) |->
        points[k].id = companyId \/ points[k].id \in Range(ids)])

\* .map((point) => ({ ...point, group }))
Grouped(points, kept, companyId) ==
    [k \in 1..Len(kept) |->
        [id |-> points[kept[k]].id, name |-> points[kept[k]].name,
         x |-> points[kept[k]].x, y |-> points[kept[k]].y,
         group |-> IF points[kept[k]].id = companyId THEN "selected" ELSE "similar"]]

\* what getCompanyEmbeddingMap returns from the points loadProjection gave it and
\* from what getSimilarCompanies answered; without a selected point
\* getSimilarCompanies is not called and similar is not looked at
getCompanyEmbeddingMap(points, companyId, similar) ==
    IF ~HasPoint(points, companyId) THEN [found |-> FALSE]
    ELSE IF IsThrown(similar) THEN similar
    ELSE [found |-> TRUE, method |-> "PCA", selectedCompanyId |-> companyId,
          points |-> Grouped(points, KeptPoints(points, companyId, similar.ids), companyId)]

(***************************************************************************)
(* The cache specification: the server answers embedding-map requests and  *)
(* renders company pages while sync-embed, another process, writes         *)
(* embedding rows.  The server runs one request at a time (its database     *)
(* calls are synchronous), each statement is a transaction of its own, and *)
(* a write of sync-embed can commit between any two of them                *)
(***************************************************************************)
MaxClock == 1

MaxSimilar == 2

\* route.ts: Math.min(500, ...)
MaxSimilarLimit == 500

\* route.ts: searchParams.get("limit") ?? "100", and 100 for a limit that is not
\* a positive number
DefaultSimilarLimit == 100

\* page.tsx: getSimilarCompanies(companyId, 8)
PageSimilarLimit == 8

\* route.ts: the similarLimit of a whole limit parameter
RouteLimit(limitParam) ==
    IF limitParam > 0 THEN Min(MaxSimilarLimit, limitParam) ELSE DefaultSimilarLimit

InitCache ==
    /\ companies = CacheCompanies
    /\ company_embeddings = [i \in 1..Len(CacheCompanies) |-> NULL]
    /\ call = [op |-> "none"]
    /\ CacheIdle
    /\ NoBackground

\* a second passes on the database clock
Tick ==
    /\ ~Answered
    /\ now < MaxClock
    /\ now' = now + 1
    /\ UNCHANGED <<companies, company_embeddings, projectionCache, call, dirty, lastPoints, background>>

\* sync-embed's upsertEmbedding statement: INSERT ... ON CONFLICT(company_id) DO
\* UPDATE SET vector = excluded.vector, ..., updated_at = CURRENT_TIMESTAMP.  It
\* commits on its own, between two requests of the server or between two
\* statements of one.  A write that falls after the last statement of a call is
\* taken after Respond, where it leads to the same states: the record of an
\* answered call stays beside the rows the call has read
UpsertEmbedding ==
    /\ ~Answered
    /\ \E id \in 1..Len(companies) : \E vector \in EmbedVectors(id) :
          company_embeddings' = [company_embeddings EXCEPT ![id] = EmbeddingRow(vector, now)]
    /\ dirty' = TRUE
    /\ lastPoints' = NULL
    /\ UNCHANGED <<companies, now, projectionCache, call, background>>

\* the record of an embedding-map call once loadProjection has returned:
\* points.find, and the call ends without a selected point
AfterLoadProjection(companyId, similarLimit, wasDirty, loaded) ==
    IF HasPoint(loaded.points, companyId)
    THEN [op |-> "getCompanyEmbeddingMap", at |-> "target", companyId |-> companyId,
          similarLimit |-> similarLimit, wasDirty |-> wasDirty,
          recomputed |-> loaded.recomputed, points |-> loaded.points]
    ELSE [op |-> "getCompanyEmbeddingMap", companyId |-> companyId,
          similarLimit |-> similarLimit, wasDirty |-> wasDirty,
          recomputed |-> loaded.recomputed, points |-> loaded.points,
          result |-> getCompanyEmbeddingMap(loaded.points, companyId, NULL)]

\* GET /api/companies/[id]/embedding-map up to the first statement of
\* loadProjection: the signature is read, and on a hit loadProjection returns
\* the cached points
GetCompanyEmbeddingMap ==
    /\ Idle
    /\ \E companyId \in 1..Len(companies), limitParam \in 0..MaxSimilar :
          IF CacheHit(projectionCache, Signature)
          THEN \E loaded \in {loadProjection(projectionCache, Signature, <<>>)} :
                  /\ call' = AfterLoadProjection(companyId, RouteLimit(limitParam), dirty, loaded)
                  /\ projectionCache' = loaded.cache
                  /\ lastPoints' = Some(loaded.points)
                  /\ dirty' = FALSE
          ELSE /\ call' = [op |-> "getCompanyEmbeddingMap", at |-> "rows",
                           companyId |-> companyId,
                           similarLimit |-> RouteLimit(limitParam), wasDirty |-> dirty,
                           signature |-> Signature]
               /\ UNCHANGED <<projectionCache, lastPoints, dirty>>
    /\ UNCHANGED <<companies, company_embeddings, now, background>>

\* the second statement of loadProjection, the projection of its rows and the
\* write of projectionCache, which takes the signature read before
LoadProjectionRows ==
    /\ call.op = "getCompanyEmbeddingMap" /\ ~Answered /\ call.at = "rows"
    /\ \E loaded \in {loadProjection(projectionCache, call.signature, EmbeddingRows)} :
          /\ call' = AfterLoadProjection(call.companyId, call.similarLimit, call.wasDirty,
                                         loaded)
          /\ projectionCache' = loaded.cache
          /\ lastPoints' = Some(loaded.points)
    /\ dirty' = FALSE
    /\ UNCHANGED <<companies, company_embeddings, now, background>>

\* getCompanyEmbeddingMap calls getSimilarCompanies, which reads the target
SimilarTargetOfMap ==
    /\ call.op = "getCompanyEmbeddingMap" /\ ~Answered /\ call.at = "target"
    /\ \E target \in {TargetVector(call.companyId)} :
          IF ReturnsBeforeCandidates(target)
          THEN \E similar \in {getSimilarCompanies(call.companyId, call.similarLimit, target,
                                                   RowidScan)} :
                  call' = [op |-> "getCompanyEmbeddingMap", companyId |-> call.companyId,
                           similarLimit |-> call.similarLimit, wasDirty |-> call.wasDirty,
                           recomputed |-> call.recomputed, points |-> call.points,
                           target |-> target, similar |-> similar,
                           result |-> getCompanyEmbeddingMap(call.points, call.companyId, similar)]
          ELSE call' = [op |-> "getCompanyEmbeddingMap", at |-> "candidates",
                        companyId |-> call.companyId, similarLimit |-> call.similarLimit,
                        wasDirty |-> call.wasDirty, recomputed |-> call.recomputed,
                        points |-> call.points, target |-> target]
    /\ UNCHANGED <<companies, company_embeddings, now, projectionCache, dirty, lastPoints,
                   background>>

\* the company page (CompanyPage) up to the first statement of
\* getSimilarCompanies(companyId, 8), for a company id of the URL.  For an id
\* without company row getCompanyDetail returns null and the page ends in
\* notFound(): getSimilarCompanies is not called.  The company may have no
\* embedding row
GetSimilarCompanies ==
    /\ Idle
    /\ \E companyId \in 1..(Len(companies) + 1) : \E target \in {TargetVector(companyId)} :
          IF companyId \notin 1..Len(companies)
          THEN call' = [op |-> "CompanyPage", companyId |-> companyId,
                        result |-> [notFound |-> TRUE]]
          ELSE IF ReturnsBeforeCandidates(target)
          THEN \E similar \in {getSimilarCompanies(companyId, PageSimilarLimit, target,
                                                   RowidScan)} :
                  call' = [op |-> "getSimilarCompanies", companyId |-> companyId,
                           limit |-> PageSimilarLimit, target |-> target,
                           similar |-> similar, result |-> similar]
          ELSE call' = [op |-> "getSimilarCompanies", at |-> "candidates",
                        companyId |-> companyId, limit |-> PageSimilarLimit, target |-> target]
    /\ UNCHANGED <<companies, company_embeddings, now, projectionCache, dirty, lastPoints,
                   background>>

\* the second statement of getSimilarCompanies, the ranking and the cut; an
\* embedding-map call goes on to filter its points
SimilarCandidatesRead ==
    /\ ~Idle /\ ~Answered /\ call.at = "candidates"
    /\ \E scan \in Scans(EmbeddingIds) :
          IF call.op = "getSimilarCompanies"
          THEN \E similar \in {getSimilarCompanies(call.companyId, call.limit, call.target,
                                                   scan)} :
                  call' = [op |-> "getSimilarCompanies", companyId |-> call.companyId,
                           limit |-> call.limit, target |-> call.target,
                           similar |-> similar, result |-> similar]
          ELSE \E similar \in {getSimilarCompanies(call.companyId, call.similarLimit,
                                                   call.target, scan)} :
                  call' = [op |-> "getCompanyEmbeddingMap", companyId |-> call.companyId,
                           similarLimit |-> call.similarLimit, wasDirty |-> call.wasDirty,
                           recomputed |-> call.recomputed, points |-> call.points,
                           target |-> call.target, similar |-> similar,
                           result |-> getCompanyEmbeddingMap(call.points, call.companyId, similar)]
    /\ UNCHANGED <<companies, company_embeddings, now, projectionCache, dirty, lastPoints,
                   background>>

NextCache ==
    \/ Tick
    \/ UpsertEmbedding
    \/ GetCompanyEmbeddingMap
    \/ LoadProjectionRows
    \/ SimilarTargetOfMap
    \/ GetSimilarCompanies
    \/ SimilarCandidatesRead
    \/ Respond

SpecCache == InitCache /\ [][NextCache]_vars

\* getSimilarCompanies alone, under the same writes: the call of the company
\* page, and the call of getCompanyEmbeddingMap taken by itself, with the
\* similarLimit of the route, for a company that has an embedding row (a company
\* with a point has one: rows are never deleted)
GetSimilarCompaniesOfMap ==
    /\ Idle
    /\ \E companyId \in EmbeddingIds, limitParam \in 0..MaxSimilar :
          \E target \in {TargetVector(companyId)} :
             IF ReturnsBeforeCandidates(target)
             THEN \E similar \in {getSimilarCompanies(companyId, RouteLimit(limitParam), target,
                                                      RowidScan)} :
                     call' = [op |-> "getSimilarCompanies", companyId |-> companyId,
                              limit |-> RouteLimit(limitParam), target |-> target,
                              similar |-> similar, result |-> similar]
             ELSE call' = [op |-> "getSimilarCompanies", at |-> "candidates",
                           companyId |-> companyId, limit |-> RouteLimit(limitParam),
                           target |-> target]
    /\ UNCHANGED <<companies, company_embeddings, now, projectionCache, dirty, lastPoints,
                   background>>

NextSimilar ==
    \/ Tick
    \/ UpsertEmbedding
    \/ GetSimilarCompanies
    \/ GetSimilarCompaniesOfMap
    \/ SimilarCandidatesRead
    \/ Respond

SpecSimilar == InitCache /\ [][NextSimilar]_vars

\* loadProjection of the call has returned and no embedding row was written since
LoadedAndUntouched ==
    call.op = "getCompanyEmbeddingMap" /\ "points" \in DOMAIN call /\ ~IsNull(lastPoints)

\* C2 (as claimed): the first embedding-map call after any insert or update of an
\* embedding row computes a signature different from the cached one and
\* recomputes the projection, so the points loadProjection returns are always
\* those of the embedding rows of the moment it returns.
C2_CallAfterWriteRecomputes ==
    LoadedAndUntouched =>
        /\ (call.wasDirty => call.recomputed)
        /\ call.points = computePcaProjection(EmbeddingRows)

\* C3 (as claimed): when loadProjection returns in an embedding-map call and no
\* embedding row was written since it returned in the call before, it returns
\* the points it returned then, has reloaded and recomputed nothing, and leaves
\* projectionCache as it was.
C3_RepeatedCallKeepsCache ==
    [][("points" \in DOMAIN call' /\ "points" \notin DOMAIN call /\ ~IsNull(lastPoints)) =>
          /\ call'.points = Val(lastPoints)
          /\ ~call'.recomputed
          /\ projectionCache' = projectionCache]_vars

(***************************************************************************)
(* Properties of the filter predicate over several dimensions              *)
(***************************************************************************)
FilterDimensions ==
    {"tags", "industries", "batches", "years", "stages", "regions",
     "isHiring", "nonprofit", "topCompany"}

\* the filter set that keeps only dimension d of filters
OnlyDimension(filters, d) ==
    [k \in DOMAIN EmptyFilters |-> IF k = d THEN filters[k] ELSE EmptyFilters[k]]

\* the companies the filter predicate accepts
Accepted(filters) ==
    {i \in 1..Len(companies) : buildFilterWhereClause(filters, companies[i])}

\* g constrains every dimension that f constrains, in the same way
Extends(g, f) ==
    \A d \in FilterDimensions : f[d] # EmptyFilters[d] => g[d] = f[d]

\* C11: the companies a filter set accepts are those accepted by each of its
\* dimensions taken alone; a requested flag keeps the companies with the flag
\* set and a flag that is not requested removes none; a filter set with a
\* further constraint accepts no company that the filter set without it rejects.
C11_FilterIsIntersectionOfDimensions ==
    call.op = "keywordSearch" =>
        LET f == call.params.filters
            all == 1..Len(companies)
        IN  /\ Accepted(f) = {i \in all : \A d \in FilterDimensions : i \in Accepted(OnlyDimension(f, d))}
            /\ Accepted(OnlyDimension(f, "isHiring")) =
                  (IF f.isHiring THEN {i \in all : companies[i].is_hiring = 1} ELSE all)
            /\ Accepted(OnlyDimension(f, "nonprofit")) =
                  (IF f.nonprofit THEN {i \in all : companies[i].nonprofit = 1} ELSE all)
            /\ Accepted(OnlyDimension(f, "topCompany")) =
                  (IF f.topCompany THEN {i \in all : companies[i].top_company = 1} ELSE all)
            /\ \A g \in FilterSets : Extends(g, f) => Accepted(g) \subseteq Accepted(f)
            /\ (~NonBlank(call.params.query) => call.result.total = Cardinality(Accepted(f)))

\* C11 witness: two active dimensions that each accept a company alone and
\* accept none together
C11_Witness ==
    /\ call.op = "keywordSearch"
    /\ call.params.query = <<>>
    /\ call.params.filters.industries # <<>>
    /\ call.params.filters.regions # <<>>
    /\ Accepted(OnlyDimension(call.params.filters, "industries")) # {}
    /\ Accepted(OnlyDimension(call.params.filters, "regions")) # {}
    /\ call.result.total = 0

(***************************************************************************)
(* Properties of the years filter                                          *)
(***************************************************************************)
\* the companies with a launch timestamp whose UTC year is requested
LaunchedInYears(years) ==
    {i \in 1..Len(companies) :
        /\ ~IsNull(companies[i].launched_at)
        /\ UtcYear(Val(companies[i].launched_at)) \in Range(years)}

\* a request filtered by years, answered from the filter predicate
YearsFiltered ==
    /\ call.op \in {"keywordSearch", "semanticSearch", "getSemanticTopCompanyIds", "getBatchAnalytics"}
    /\ call.params.filters.years # <<>>
    /\ ~IsThrown(call.result)
    /\ (call.op = "getBatchAnalytics" => IsNull(call.subset))

\* C12: under a non-empty years filter no company without launch timestamp is
\* returned by keywordSearch, semanticSearch, the top ids or the analytics, and
\* the UTC launch year of every returned company is one of the requested years.
C12_YearsFilterNeedsLaunchYear ==
    YearsFiltered =>
        LET years == call.params.filters.years
            allowed == LaunchedInYears(years)
        IN  /\ (call.op \in {"keywordSearch", "semanticSearch"} =>
                  /\ \A k \in 1..Len(call.result.results) :
                        /\ call.result.results[k].id \in allowed
                        /\ (IsNull(call.result.results[k].launched_year)
                              \/ Val(call.result.results[k].launched_year) \in Range(years))
                  /\ call.result.total <= Cardinality(allowed))
            /\ (call.op = "getSemanticTopCompanyIds" => Range(call.result.ids) \subseteq allowed)
            /\ (call.op = "getBatchAnalytics" =>
                  /\ call.result.totalCompanies <= Cardinality(allowed)
                  /\ \A k \in 1..Len(call.result.rows) :
                        call.result.rows[k]["total"] <=
                            Cardinality({i \in allowed : BatchOf(i) = call.result.rows[k]["batch"]}))

\* C12 witness: a years filter returns one of two companies and leaves out the
\* one without launch timestamp
C12_Witness ==
    /\ YearsFiltered
    /\ call.op = "keywordSearch"
    /\ Len(companies) = 2
    /\ Len(call.result.results) = 1
    /\ \E i \in 1..Len(companies) : IsNull(companies[i].launched_at)

(***************************************************************************)
(* Properties of the error handling of the semantic operations             *)
(***************************************************************************)
\* the companies that pass the filter and whose stored vector parses
WellFormedRows(filters) ==
    {i \in 1..Len(companies) :
        /\ HasEmbedding(i)
        /\ ~JsonParseThrows(StoredVector(i))
        /\ buildFilterWhereClause(filters, companies[i])}

\* C13 (as claimed): with a stored vector that does not parse, semanticSearch and
\* getSemanticTopCompanyIds complete without raising, leave out only that row and
\* answer from the remaining companies.
C13_MalformedVectorIsSkipped ==
    (/\ call.op \in {"semanticSearch", "getSemanticTopCompanyIds"}
     /\ NonBlank(call.params.query)
     /\ ~call.failed) =>
        /\ ~IsThrown(call.result)
        /\ (call.op = "semanticSearch" =>
              /\ call.result.total = Cardinality(WellFormedRows(call.params.filters))
              /\ Range(Ids(call.result.results)) \subseteq WellFormedRows(call.params.filters))
        /\ (call.op = "getSemanticTopCompanyIds" =>
              /\ Range(call.result.ids) \subseteq WellFormedRows(call.params.filters)
              /\ Len(call.result.ids) =
                    Min(call.limit, Cardinality(WellFormedRows(call.params.filters))))

\* C14: when the provider call of semanticSearch or getSemanticTopCompanyIds
\* fails, the operation fails with the provider's error, the provider was called
\* once, no keyword result is returned, and the tables and the projection cache
\* are left as they were.
C14_ProviderFailurePropagates ==
    [][(call'.op \in {"semanticSearch", "getSemanticTopCompanyIds"} /\ call'.failed) =>
          /\ call'.result = Thrown("ProviderError")
          /\ call'.providerCalls = 1
          /\ companies' = companies
          /\ company_embeddings' = company_embeddings
          /\ projectionCache' = projectionCache]_vars

\* C14 witness: the provider call of a semantic search fails while a keyword
\* search with the same parameters would have returned a company
C14_Witness ==
    /\ call.op = "semanticSearch"
    /\ call.failed
    /\ IsThrown(call.result)
    /\ keywordSearch(call.params, RowidScan).total > 0

(***************************************************************************)
(* Facets (getFacets)                                                      *)
(***************************************************************************)
\* the values one company adds to a facet: every entry of its list, its stage
\* if (company.stage), its UTC launch year if (company.launched_at)
FacetValues(c, dimension) ==
    IF dimension = "tags" THEN c.tags
    ELSE IF dimension = "industries" THEN c.industries
    ELSE IF dimension = "regions" THEN c.regions
    ELSE IF dimension = "stages" THEN (IF c.stage = Some("") THEN NULL ELSE c.stage)
    ELSE LaunchedYear(c)

RECURSIVE FacetOccurrences(_, _)
\* the values the loop over the companies from row i on increments a counter for
FacetOccurrences(i, dimension) ==
    IF i > Len(companies) THEN <<>>
    ELSE FacetValues(companies[i], dimension) \o FacetOccurrences(i + 1, dimension)

\* [...counts.entries()].sort((left, right) => right[1] - left[1])
formatFacet(occurrences) ==
    LET keys == FirstSeen(occurrences)
        n == Len(keys)
        order == SortStable([k \in 1..n |-> k],
                    [i \in 1..n |-> [j \in 1..n |->
                        CountOf(occurrences, keys[i]) > CountOf(occurrences, keys[j])]])
    IN  [k \in 1..n |-> [value |-> keys[order[k]], count |-> CountOf(occurrences, keys[order[k]])]]

getFacets ==
    LET years == formatFacet(FacetOccurrences(1, "years"))
        n == Len(years)
        byYear == SortStable([k \in 1..n |-> k],
                    [i \in 1..n |-> [j \in 1..n |-> years[i].value > years[j].value]])
    IN  [tags |-> formatFacet(FacetOccurrences(1, "tags")),
         industries |-> formatFacet(FacetOccurrences(1, "industries")),
         regions |-> formatFacet(FacetOccurrences(1, "regions")),
         stages |-> formatFacet(FacetOccurrences(1, "stages")),
         years |-> [k \in 1..n |-> years[byYear[k]]]]

(***************************************************************************)
(* The facets specification                                                *)
(***************************************************************************)
MaxFacetCompanies == 3

\* company rows the facet corpora are drawn from: launches in 2019, 2022 and
\* 1970 (one of them at timestamp 0), lists with a repeated value, a stage that
\* is the empty text
FacetPool == <<
    [BaseRow EXCEPT !.launched_at = Some(1546300800), !.tags = <<"ai">>,
                    !.industries = <<"B2B">>, !.regions = <<"Europe">>, !.stage = Some("Early")],
    [BaseRow EXCEPT !.launched_at = Some(1640995200), !.tags = <<"ai", "ai">>,
                    !.industries = <<"Fintech", "B2B">>],
    [BaseRow EXCEPT !.launched_at = Some(1577836799), !.tags = <<"fintech", "ai">>,
                    !.regions = <<"Asia", "Asia">>, !.stage = Some("Growth")],
    [BaseRow EXCEPT !.launched_at = Some(0), !.tags = <<"fintech">>, !.stage = Some("Growth")],
    [BaseRow EXCEPT !.launched_at = Some(86400), !.industries = <<"B2B">>, !.stage = Some("")],
    [BaseRow EXCEPT !.industry = Some("B2B")] >>

InitFacets ==
    /\ \E n \in 0..MaxFacetCompanies : \E pick \in [1..n -> 1..Len(FacetPool)] :
          /\ companies = [i \in 1..n |-> FacetPool[pick[i]]]
          /\ company_embeddings = [i \in 1..n |-> NULL]
    /\ call = [op |-> "none"]
    /\ CacheIdle
    /\ NoBackground

\* GET /api/facets
GetFacets ==
    /\ Idle
    /\ call' = [op |-> "getFacets", result |-> getFacets]
    /\ UNCHANGED <<companies, company_embeddings, now, projectionCache, dirty, lastPoints, background>>

NextFacets == GetFacets \/ Respond

SpecFacets == InitFacets /\ [][NextFacets]_vars

\* C15 (as claimed): the tags, industries, regions and stages lists of getFacets
\* are in non-increasing order of count; the years list is in strictly decreasing
\* order of year, and the count of each year is the number of companies whose
\* UTC launch year is that year.
C15_FacetOrderAndYearCounts ==
    call.op = "getFacets" =>
        /\ \A dimension \in {"tags", "industries", "regions", "stages"} :
              \A k \in 1..(Len(call.result[dimension]) - 1) :
                  call.result[dimension][k].count >= call.result[dimension][k + 1].count
        /\ \A k \in 1..(Len(call.result.years) - 1) :
              call.result.years[k].value > call.result.years[k + 1].value
        /\ \A k \in 1..Len(call.result.years) :
              call.result.years[k].count =
                  Cardinality({i \in 1..Len(companies) :
                      /\ ~IsNull(companies[i].launched_at)
                      /\ UtcYear(Val(companies[i].launched_at)) = call.result.years[k].value})

\* C16 (as claimed): in the tags, industries and regions facets the count of a
\* value is the number of companies whose list holds the value at least once.
C16_FacetCountsCompaniesOnce ==
    call.op = "getFacets" =>
        \A dimension \in {"tags", "industries", "regions"} :
            \A k \in 1..Len(call.result[dimension]) :
                call.result[dimension][k].count =
                    Cardinality({i \in 1..Len(companies) :
                        call.result[dimension][k].value \in Range(companies[i][dimension])})

(***************************************************************************)
(* Properties of the batch rows of the analytics                           *)
(***************************************************************************)
\* the label of row k of the analytics result
RowBatch(k) == call.result.rows[k]["batch"]

\* a label of the compact or of the named form
Parseable(batch) == ~IsNull(batchSortKey(batch).year)

\* the season of a parseable label in the order Winter 1, Spring 2, Summer 3,
\* Fall 4; the letter S of the compact form is given the rank the code gives it
ClaimedSeason(batch) ==
    IF IsCompactBatch(batch) /\ LowerChar(batch[1]) = "f" THEN 4
    ELSE batchSortKey(batch).seasonOrder

\* C17 (as claimed): the rows of getBatchAnalytics are in chronological order:
\* of two rows with parseable labels, compact or named, the one with the earlier
\* (year, season) comes first, with Winter < Spring < Summer < Fall; rows with
\* unparseable labels come after the parseable ones; rows with equal keys are in
\* the order of their labels.
C17_BatchRowsChronological ==
    call.op = "getBatchAnalytics" =>
        \A k \in 1..Len(call.result.rows), m \in 1..Len(call.result.rows) :
            k < m =>
                LET yk == batchSortKey(RowBatch(k)).year
                    ym == batchSortKey(RowBatch(m)).year
                    sk == ClaimedSeason(RowBatch(k))
                    sm == ClaimedSeason(RowBatch(m))
                IN  /\ (~Parseable(RowBatch(k)) => ~Parseable(RowBatch(m)))
                    /\ ((Parseable(RowBatch(k)) /\ Parseable(RowBatch(m))) =>
                            (Val(yk) < Val(ym) \/ (Val(yk) = Val(ym) /\ sk <= sm)))
                    /\ ((yk = ym /\ sk = sm) => localeCompare(RowBatch(k), RowBatch(m)) < 0)

\* C18 (as claimed): every candidate company whose batch is missing or is not
\* of the compact or named form is counted in the one row labelled
\* 'Unspecified', and no row has an unparseable label other than 'Unspecified'.
C18_UnparseableBatchIsUnspecified ==
    call.op = "getBatchAnalytics" =>
        LET candidates == AnalyticsRows(call.params, call.subset, RowidScan)
            loose == {j \in 1..Len(candidates) :
                        \/ IsNull(companies[candidates[j]].batch)
                        \/ ~Parseable(Val(companies[candidates[j]].batch))}
        IN  /\ \A k \in 1..Len(call.result.rows) :
                  Parseable(RowBatch(k)) \/ RowBatch(k) = Unspecified
            /\ (call.colorBy = "none" =>
                  \A k \in 1..Len(call.result.rows) :
                      RowBatch(k) = Unspecified => call.result.rows[k]["total"] = Cardinality(loose))
            /\ (loose # {} => \E k \in 1..Len(call.result.rows) : RowBatch(k) = Unspecified)

(***************************************************************************)
(* Properties of the candidate set of the analytics                        *)
(***************************************************************************)
\* the candidates the id subset and the params of the call stand for: the
\* matches of the keyword search when there is no subset, the existing companies
\* named by the subset otherwise
ClaimedCandidates ==
    IF IsNull(call.subset)
        THEN {i \in 1..Len(companies) : KeywordWhere(call.params, companies[i])}
    ELSE {i \in 1..Len(companies) : \E k \in 1..Len(Val(call.subset)) : Val(call.subset)[k] = i}

\* C19: getBatchAnalytics with an empty id subset returns totalCompanies 0 and no
\* rows, whatever the params and the corpus; with no subset its candidates are
\* the companies the keyword search counts (text match and filter predicate);
\* with a non-empty subset they are the existing companies whose id is in the
\* subset, each counted once. The candidates show in totalCompanies, in the set
\* of batch labels and, without colouring, in each row's total.
C19_SubsetSelectsCandidates ==
    call.op = "getBatchAnalytics" =>
        LET r == call.result
        IN  /\ (call.subset = Some(<<>>) => (r.totalCompanies = 0 /\ r.rows = <<>>))
            /\ (IsNull(call.subset) => r.totalCompanies = keywordSearch(call.params, RowidScan).total)
            /\ r.totalCompanies = Cardinality(ClaimedCandidates)
            /\ {RowBatch(k) : k \in 1..Len(r.rows)} = {BatchOf(i) : i \in ClaimedCandidates}
            /\ (call.colorBy = "none" =>
                  \A k \in 1..Len(r.rows) :
                      r.rows[k]["total"] =
                          Cardinality({i \in ClaimedCandidates : BatchOf(i) = RowBatch(k)}))

\* a subset that repeats an id and names both companies of a corpus whose
\* keyword filter would keep only one of them
C19_Witness ==
    /\ call.op = "getBatchAnalytics"
    /\ call.subset = Some(<<2, 1, 2>>)
    /\ Len(companies) = 2
    /\ call.result.totalCompanies = 2
    /\ Cardinality({i \in 1..2 : KeywordWhere(call.params, companies[i])}) = 1

(***************************************************************************)
(* Properties of the embedding map                                         *)
(***************************************************************************)
\* the points of the answer with a given id and group
MapPoints(id, group) ==
    {k \in 1..Len(call.result.points) :
        call.result.points[k].id = id /\ call.result.points[k].group = group}

\* C20 (as claimed): getCompanyEmbeddingMap(companyId, similarLimit) returns null
\* exactly when the company has no point in the projection; otherwise its points
\* are one point of group 'selected', the company itself, one point of group
\* 'similar' for every id its call of getSimilarCompanies(companyId,
\* similarLimit) returned, and no other, so that points.length = 1 + the number
\* of similar companies.
C20_MapHoldsSelectedAndSimilar ==
    (call.op = "getCompanyEmbeddingMap" /\ Answered /\ ~IsThrown(call.result)) =>
        /\ call.result.found = (\E k \in 1..Len(call.points) : call.points[k].id = call.companyId)
        /\ call.result.found =>
              /\ Cardinality(MapPoints(call.companyId, "selected")) = 1
              /\ \A j \in 1..Len(call.similar.ids) :
                    Cardinality(MapPoints(call.similar.ids[j], "similar")) = 1
              /\ \A k \in 1..Len(call.result.points) :
                    \/ k \in MapPoints(call.companyId, "selected")
                    \/ \E j \in 1..Len(call.similar.ids) :
                          k \in MapPoints(call.similar.ids[j], "similar")
              /\ Len(call.result.points) = 1 + Len(call.similar.ids)

(***************************************************************************)
(* Properties of the similar companies                                     *)
(***************************************************************************)
\* the limit of the call of getSimilarCompanies: the page's, or the
\* embedding map's similarLimit
SimilarLimitOf ==
    IF call.op = "getSimilarCompanies" THEN call.limit ELSE call.similarLimit

\* C21: every call of getSimilarCompanies(companyId, limit), by the company page
\* or by getCompanyEmbeddingMap, returns the first limit of the other companies
\* with a stored embedding in the order of non-increasing cosine similarity to
\* the target's vector as the call read it: never the target itself, at most
\* limit entries, no company left out that is nearer than a returned one; and
\* the empty list, not an error, when the target has no stored embedding.
C21_SimilarAreNearestOthers ==
    "similar" \in DOMAIN call =>
        LET ids == call.similar.ids
            others == {i \in 1..Len(companies) : i # call.companyId /\ HasEmbedding(i)}
            score == [i \in others |->
                        SimilarityOf(Val(call.target).items, StoredVector(i).items)]
        IN  /\ ~IsThrown(call.similar)
            /\ (IsNull(call.target) => ids = <<>>)
            /\ (~IsNull(call.target) =>
                  /\ Range(ids) \subseteq others
                  /\ Len(ids) = Min(SimilarLimitOf, Cardinality(others))
                  /\ Cardinality(Range(ids)) = Len(ids)
                  /\ \A k \in 1..Len(ids), m \in 1..Len(ids) :
                        k < m => ~ScoreLess(score[ids[k]], score[ids[m]])
                  /\ \A i \in others \ Range(ids), k \in 1..Len(ids) :
                        ~ScoreLess(score[ids[k]], score[i]))

\* C21 witness: the company page of company 1 lists both other embedded
\* companies, the one with the larger id first because it is the nearer one
C21_Witness ==
    /\ call.op = "getSimilarCompanies"
    /\ Answered
    /\ call.companyId = 1
    /\ call.similar.ids = <<3, 2>>
    /\ ScoreLess(SimilarityOf(Val(call.target).items, StoredVector(2).items),
                 SimilarityOf(Val(call.target).items, StoredVector(3).items))

(***************************************************************************)
(* Facets against filters                                                  *)
(***************************************************************************)
\* C26 (as claimed): for every entry {value, count} of every list getFacets
\* returns (tags, industries, regions, stages, years), keywordSearch with an
\* empty query and a filter set that holds only that value in that dimension
\* returns total = count.
C26_FacetCountIsFilterTotal ==
    call.op = "getFacets" =>
        \A dimension \in {"tags", "industries", "regions", "stages", "years"} :
            \A k \in 1..Len(call.result[dimension]) :
                keywordSearch([query |-> <<>>, page |-> 1, pageSize |-> 1, sort |-> "relevance",
                               filters |-> [EmptyFilters EXCEPT
                                               ![dimension] = <<call.result[dimension][k].value>>]],
                              RowidScan).total
                    = call.result[dimension][k].count

(***************************************************************************)
(* Properties of the pagination                                            *)
(***************************************************************************)
\* C27: for the corpus, query, filter set, sort mode and pageSize of a
\* keywordSearch call, the pages 1..ceil(total / pageSize) partition the match
\* set: every matching company is on exactly one page and once on it, and no
\* other company is on a page, also when matching companies are equal on every
\* key of the sort mode, in whichever order the statement of the call visits the
\* rows.
C27_PagesPartitionMatches ==
    call.op = "keywordSearch" =>
        \A scan \in Scans(KeywordRows(call.params)) :
          call.result = keywordSearch(call.params, scan) =>
            LET size == call.params.pageSize
                pages == (call.result.total + size - 1) \div size
                ids == [p \in 1..pages |->
                          Ids(keywordSearch([call.params EXCEPT !.page = p], scan).results)]
                matches == {i \in 1..Len(companies) : KeywordWhere(call.params, companies[i])}
            IN  /\ \A p \in 1..pages :
                      Range(ids[p]) \subseteq matches /\ Cardinality(Range(ids[p])) = Len(ids[p])
                /\ \A i \in matches : Cardinality({p \in 1..pages : i \in Range(ids[p])}) = 1

\* C27 witness: two matching companies with the same name under sort 'name', read
\* along an index that returns the later row first, and the second page of size
\* one holds the earlier row
C27_Witness ==
    /\ call.op = "keywordSearch"
    /\ call.params.sort = "name"
    /\ call.params.pageSize = 1
    /\ call.params.page = 2
    /\ Len(companies) = 2
    /\ companies[1].name = companies[2].name
    /\ call.result.total = 2
    /\ Ids(call.result.results) = <<1>>


(***************************************************************************)
(* Request parsing: src/lib/request-parsing.ts                             *)
(***************************************************************************)

\* the value of a digit of a numeric literal, and a value no base has for
\* every other character
DigitOf(ch) ==
    IF IsDigit(ch) THEN CharCode(ch) - 48
    ELSE IF CharCode(ch) >= 97 THEN CharCode(ch) - 87
    ELSE IF CharCode(ch) >= 65 THEN CharCode(ch) - 55
    ELSE 99

AllDigitsOf(text, base) == \A i \in 1..Len(text) : DigitOf(text[i]) < base

RECURSIVE NatOfDigits(_, _, _, _)
\* the mathematical value of a run of digits
NatOfDigits(text, base, i, value) ==
    IF i > Len(text) THEN value
    ELSE NatOfDigits(text, base, i + 1, NatAdd(NatScale(value, base), NatFrom(DigitOf(text[i]))))

\* the base of a NonDecimalIntegerLiteral 0b.., 0o.., 0x.. (either case), or 0
RadixOf(t) ==
    IF Len(t) < 3 \/ t[1] # "0" THEN 0
    ELSE IF t[2] \in {"x", "X"} THEN 16
    ELSE IF t[2] \in {"o", "O"} THEN 8
    ELSE IF t[2] \in {"b", "B"} THEN 2
    ELSE 0

RadixLiteral(digits, base) ==
    IF AllDigitsOf(digits, base) THEN F64Round(FALSE, NatOfDigits(digits, base, 1, <<>>), 0, FALSE)
    ELSE F64NaN

\* exponents beyond this bound give 0 or Infinity whatever the digits before
\* them, for the literals of ParamTexts
ExponentCap == 100000

RECURSIVE DropZeros(_)
DropZeros(digits) ==
    IF digits # <<>> /\ Head(digits) = "0" THEN DropZeros(Tail(digits)) ELSE digits

ExponentDigits(digits) ==
    IF Len(DropZeros(digits)) > 5 THEN ExponentCap ELSE DigitsValue(digits)

\* the digits of an ExponentPart after its e, or nothing for a malformed one
UnsignedExponent(expo) ==
    IF expo # <<>> /\ expo[1] \in {"+", "-"} THEN Tail(expo) ELSE expo

ExponentOk(expo) == UnsignedExponent(expo) # <<>> /\ AllDigits(UnsignedExponent(expo))

ExponentOf(expo) ==
    IF expo = <<>> THEN 0
    ELSE IF expo[1] = "-" THEN 0 - ExponentDigits(UnsignedExponent(expo))
    ELSE ExponentDigits(UnsignedExponent(expo))

Dots(mant) == {i \in 1..Len(mant) : mant[i] = "."}

\* digits with at most one dot among them, and at least one digit
MantissaOk(mant) ==
    /\ Cardinality(Dots(mant)) <= 1
    /\ \A i \in 1..Len(mant) : IsDigit(mant[i]) \/ mant[i] = "."
    /\ Len(mant) > Cardinality(Dots(mant))

FractionLength(mant) ==
    IF Dots(mant) = {} THEN 0 ELSE Len(mant) - (CHOOSE i \in Dots(mant) : TRUE)

\* an unsigned decimal literal: its mantissa, and its exponent part if it has one
DecimalLiteral(negative, mant, hasExponent, expo) ==
    IF ~MantissaOk(mant) \/ (hasExponent /\ ~ExponentOk(expo)) THEN F64NaN
    ELSE F64FromDecimal(negative, NatOfDigits(SelectSeq(mant, IsDigit), 10, 1, <<>>),
                        (IF hasExponent THEN ExponentOf(expo) ELSE 0) - FractionLength(mant))

\* the position of the e of the exponent part, or one past the end
ExponentAt(body) ==
    IF \E i \in 1..Len(body) : body[i] \in {"e", "E"}
    THEN CHOOSE i \in 1..Len(body) :
            body[i] \in {"e", "E"} /\ \A j \in 1..(i - 1) : body[j] \notin {"e", "E"}
    ELSE Len(body) + 1

UnsignedLiteral(negative, body) ==
    IF body = <<"I", "n", "f", "i", "n", "i", "t", "y">> THEN F64Infinity(negative)
    ELSE DecimalLiteral(negative, SubSeq(body, 1, ExponentAt(body) - 1),
                        ExponentAt(body) <= Len(body),
                        SubSeq(body, ExponentAt(body) + 1, Len(body)))

StrNumericLiteral(t) ==
    IF t = <<>> THEN F64Zero(FALSE)
    ELSE IF RadixOf(t) # 0 THEN RadixLiteral(SubSeq(t, 3, Len(t)), RadixOf(t))
    ELSE IF t[1] \in {"+", "-"} THEN UnsignedLiteral(t[1] = "-", Tail(t))
    ELSE UnsignedLiteral(FALSE, t)

\* Number(text): StringToNumber.  White space around the literal is dropped and
\* the empty text is 0; a literal is Infinity or a decimal number, either with
\* an optional sign, or an unsigned binary, octal or hexadecimal integer; its
\* value is rounded to the nearest double; every other text is NaN
StringToNumber(text) == StrNumericLiteral(Trim(text))

\* Math.max(bound, value) for an integer bound: NaN wins over every number
MathMax(bound, value) ==
    IF IsNaN(value) THEN F64NaN
    ELSE IF F64Less(F64FromInt(bound), value) THEN value
    ELSE F64FromInt(bound)

\* Math.min(bound, value) for an integer bound
MathMin(bound, value) ==
    IF IsNaN(value) THEN F64NaN
    ELSE IF F64Less(value, F64FromInt(bound)) THEN value
    ELSE F64FromInt(bound)

\* searchParams.get(name) ?? fallback, then Number(...): Number of a number is itself
NumberOrDefault(raw, fallback) ==
    IF IsNull(raw) THEN F64FromInt(fallback) ELSE StringToNumber(Val(raw))

\* parseSearchParams, the two paging fields
parseSearchParams(searchParams) ==
    [page |-> MathMax(1, NumberOrDefault(searchParams.page, 1)),
     pageSize |-> MathMin(50, MathMax(1, NumberOrDefault(searchParams.pageSize, 20)))]

\* const offset = (params.page - 1) * params.pageSize  in keywordSearch, in doubles
PageOffset(params) == F64Mul(F64Sub(params.page, F64FromInt(1)), params.pageSize)

\* what a client can put after page= or pageSize=, or leave out
ParamTexts ==
    { NULL, Some(<<>>), Some(<<"a", "b", "c">>), Some(<<"1", ".", "5">>), Some(<<"0">>),
      Some(<<"-", "1">>), Some(<<"2">>), Some(<<"5", "1">>), Some(<<"1", "e", "2">>),
      Some(<<" ", "7", " ">>), Some(<<"I", "n", "f", "i", "n", "i", "t", "y">>),
      Some(<<".", "5">>), Some(<<"3", ".">>), Some(<<"2", "5", "e", "-", "1">>),
      Some(<<"1", ".", "1">>), Some(<<"0", "x", "1", "0">>) }

InitIdle ==
    /\ companies = <<>>
    /\ company_embeddings = <<>>
    /\ call = [op |-> "none"]
    /\ CacheIdle
    /\ NoBackground

\* GET /api/search?page=..&pageSize=.. up to the parsed parameters
ParseSearchParams ==
    /\ Idle
    /\ \E page \in ParamTexts, pageSize \in ParamTexts :
          call' = [op |-> "parseSearchParams",
                   searchParams |-> [page |-> page, pageSize |-> pageSize],
                   result |-> parseSearchParams([page |-> page, pageSize |-> pageSize])]
    /\ UNCHANGED <<companies, company_embeddings, now, projectionCache, dirty, lastPoints, background>>

NextParse == ParseSearchParams \/ Respond

SpecParse == InitIdle /\ [][NextParse]_vars

\* a double that is a whole number
IsInteger(value) ==
    /\ IsFinite(value)
    /\ (value.e >= 0 \/ NatShl(NatShr(value.m, 0 - value.e), 0 - value.e) = value.m)

\* C30: whatever the query string holds for page and pageSize, the parsed page
\* is an integer >= 1, the parsed pageSize is an integer in 1..50, and the
\* offset (page - 1) * pageSize is a non-negative integer.
C30_PagingParamsAreIntegers ==
    call.op = "parseSearchParams" =>
        /\ IsInteger(call.result.page)
        /\ ~F64Less(call.result.page, F64FromInt(1))
        /\ IsInteger(call.result.pageSize)
        /\ ~F64Less(call.result.pageSize, F64FromInt(1))
        /\ ~F64Less(F64FromInt(50), call.result.pageSize)
        /\ IsInteger(PageOffset(call.result))
        /\ ~PageOffset(call.result).neg

(***************************************************************************)
(* The analytics route, GET /api/analytics, and the analytics              *)
(* specification: the route and the function it calls                      *)
(***************************************************************************)
\* sortSchema.parse(searchParams.get("sort") ?? "relevance") of parseSearchParams
SortParses(sort) == IsNull(sort) \/ Val(sort) \in SortModes

\* colorBySchema.parse(searchParams.get("colorBy") ?? "none")
ColorByParses(colorBy) == IsNull(colorBy) \/ Val(colorBy) \in ColorBys

\* topNSchema.parse(searchParams.get("topN") ?? "8"):
\* z.coerce.number().int().min(1).max(20)
TopNParses(topN) ==
    \E n \in {NumberOrDefault(topN, 8)} :
        /\ IsInteger(n)
        /\ ~F64Less(n, F64FromInt(1))
        /\ ~F64Less(F64FromInt(20), n)

\* the catch branch: NextResponse.json({ error: message }, { status: 500 })
ServerError(what) == [status |-> 500, error |-> what]

\* what GET answers.  A parameter that fails its schema throws a ZodError.
\* Otherwise the params are those of parseSearchParams of request-parsing.ts,
\* whose filters hold tags, industries, years, stages, regions and the three
\* flags and no field batches; getSemanticTopCompanyIds (buildFilterOnlySql,
\* before the provider is called) and getBatchAnalytics without subset
\* (buildKeywordAndFilterSql) both reach buildFilterWhereClause, where
\* filters.batches.length throws a TypeError before any statement runs
GET(sort, colorBy, topN) ==
    IF ~SortParses(sort) \/ ~ColorByParses(colorBy) \/ ~TopNParses(topN)
    THEN ServerError("ZodError")
    ELSE ServerError("TypeError")

\* one request of the analytics route
GetAnalytics ==
    /\ Idle
    /\ \E sort \in {NULL, Some("relevance"), Some("bogus")},
          colorBy \in {NULL, Some("none"), Some("tags"), Some("industries"), Some("bogus")},
          topN \in {NULL, Some(<<"2">>), Some(<<"0">>), Some(<<"1", ".", "5">>),
                    Some(<<"5", "1">>), Some(<<"a", "b", "c">>)},
          mode \in {"keyword", "semantic"}, query \in {<<>>, <<"a">>} :
          call' = [op |-> "GET /api/analytics", query |-> query, mode |-> mode,
                   sort |-> sort, colorBy |-> colorBy, topN |-> topN,
                   providerCalls |-> 0,
                   result |-> GET(sort, colorBy, topN)]
    /\ UNCHANGED <<companies, company_embeddings, now, projectionCache, dirty, lastPoints,
                   background>>

NextAnalytics == GetBatchAnalytics \/ GetAnalytics \/ Respond

SpecAnalytics == InitAnalytics /\ [][NextAnalytics]_vars


(***************************************************************************)
(* The Crawl4AI scraper: src/lib/crawl4ai.ts                               *)
(***************************************************************************)

maxAttempts == 3

\* stderr and error messages are kept as sequences of fragments
MissingModulePhrase == "ModuleNotFoundError: No module named 'crawl4ai'"

Includes(text, fragment) == \E i \in 1..Len(text) : text[i] = fragment

\* isMissingCrawl4AiModule(stderr, errorMessage)
isMissingCrawl4AiModule(stderr, errorMessage) ==
    Includes(stderr \o errorMessage, MissingModulePhrase)

\* what one subprocess attempt can end with: a parsed output with success set
\* (markdown possibly undefined), or an Error from execFile (non-zero exit,
\* timeout), from parseJsonFromStdout, or from  if (!output.success) throw
AttemptOutcomes ==
    { [ok |-> TRUE, markdown |-> m] :
        m \in { NULL, Some(<<>>), Some(<<" ", "a", " ">>), Some(<<"a">>), Some(<<"b", " ">>) } }
    \cup
    { [ok |-> FALSE, stderr |-> <<"Timeout">>, message |-> <<"Command failed">>],
      [ok |-> FALSE, stderr |-> <<"Traceback", MissingModulePhrase>>,
                     message |-> <<"Command failed">>],
      [ok |-> FALSE, stderr |-> <<>>, message |-> <<"Crawl4AI returned an unexpected response">>],
      [ok |-> FALSE, stderr |-> <<>>, message |-> <<"Crawl4AI scrape failed", "net::ERR">>],
      [ok |-> FALSE, stderr |-> <<>>,
                     message |-> <<"Crawl4AI scrape failed", MissingModulePhrase>>] }

InstallError == [ok |-> FALSE, stderr |-> <<>>, message |-> <<"Crawl4AI is not installed">>]

\* the catch block retrying whatever the error is
attemptEndsRetryingMissingModule(run, outcome) ==
    LET seen == [run EXCEPT !.outcomes = Append(@, outcome)]
    IN  IF outcome.ok
        THEN [seen EXCEPT !.status = "returned",
                          !.value = IF IsNull(outcome.markdown) THEN <<>>
                                    ELSE Trim(Val(outcome.markdown))]
        ELSE IF run.attempt = maxAttempts
        THEN [seen EXCEPT !.status = "thrown", !.error = outcome]
        ELSE [seen EXCEPT !.status = "sleeping"]

\* the body of the for loop once the subprocess of this attempt has ended
attemptEnds(run, outcome) ==
    LET seen == [run EXCEPT !.outcomes = Append(@, outcome)]
    IN  IF outcome.ok
        THEN [seen EXCEPT !.status = "returned",
                          !.value = IF IsNull(outcome.markdown) THEN <<>>
                                    ELSE Trim(Val(outcome.markdown))]
        ELSE IF isMissingCrawl4AiModule(outcome.stderr, outcome.message)
        THEN [seen EXCEPT !.status = "thrown", !.error = InstallError]
        ELSE IF run.attempt = maxAttempts
        THEN [seen EXCEPT !.status = "thrown", !.error = outcome]
        ELSE [seen EXCEPT !.status = "sleeping"]

rest == <<companies, company_embeddings, now, projectionCache, call, dirty, lastPoints,
          website_snapshots, sync, dashboard>>

\* scrapeWebsiteMarkdown(url) is called: attempt 1 starts its subprocess
StartScrape ==
    /\ scrape.status = "none"
    /\ scrape' = [status |-> "running", attempt |-> 1, outcomes |-> <<>>, sleeps |-> <<>>,
                  value |-> <<>>, error |-> NULL]
    /\ UNCHANGED rest

\* the subprocess ends (the timeout option of execFile bounds its run)
AttemptEnds ==
    /\ scrape.status = "running"
    /\ \E outcome \in AttemptOutcomes : scrape' = attemptEnds(scrape, outcome)
    /\ UNCHANGED rest

\* await sleep(attempt * 1000) is over and the loop goes to the next attempt
WakeUp ==
    /\ scrape.status = "sleeping"
    /\ scrape' = [scrape EXCEPT !.status = "running",
                                !.sleeps = Append(@, scrape.attempt * 1000),
                                !.attempt = @ + 1]
    /\ UNCHANGED rest

\* the caller has taken the value or the error
ScrapeSettled ==
    /\ scrape.status \in {"returned", "thrown"}
    /\ scrape' = [status |-> "none"]
    /\ UNCHANGED rest

NextScrape == StartScrape \/ AttemptEnds \/ WakeUp \/ ScrapeSettled

\* timers fire and every subprocess ends, by exit or by the execFile timeout
SpecScrape ==
    InitIdle /\ [][NextScrape]_vars /\ WF_vars(AttemptEnds) /\ WF_vars(WakeUp)

ScrapeActive == scrape.status \in {"running", "sleeping"}

ScrapeOver == scrape.status \in {"returned", "thrown"}

ScrapeWithinContract ==
    scrape.status # "none" =>
        LET n == Len(scrape.outcomes)
        IN  /\ n <= 3
            /\ scrape.attempt <= 3
            \* every attempt before the last one failed, and not for a missing module
            /\ \A i \in 1..(n - 1) :
                  /\ ~scrape.outcomes[i].ok
                  /\ ~isMissingCrawl4AiModule(scrape.outcomes[i].stderr,
                                              scrape.outcomes[i].message)
            \* attempt k is preceded by waits of 1000, 2000, .. (k - 1) * 1000 ms
            /\ scrape.sleeps = [i \in 1..(scrape.attempt - 1) |-> i * 1000]
            /\ scrape.status = "running" => n = scrape.attempt - 1
            /\ scrape.status = "sleeping" => n = scrape.attempt /\ ~scrape.outcomes[n].ok
            /\ scrape.status = "returned" =>
                  /\ n = scrape.attempt
                  /\ scrape.outcomes[n].ok
                  /\ scrape.value = IF IsNull(scrape.outcomes[n].markdown) THEN <<>>
                                    ELSE Trim(Val(scrape.outcomes[n].markdown))
            /\ scrape.status = "thrown" =>
                  /\ n = scrape.attempt
                  /\ ~scrape.outcomes[n].ok
                  /\ IF isMissingCrawl4AiModule(scrape.outcomes[n].stderr,
                                                scrape.outcomes[n].message)
                     THEN scrape.error = InstallError
                     ELSE n = 3 /\ scrape.error = scrape.outcomes[3]

\* C29: a call of scrapeWebsiteMarkdown ends after at most 3 subprocess attempts:
\* it returns the trimmed markdown of the first successful attempt, waits
\* attempt * 1000 ms after a failed attempt before the next, rethrows the error
\* of the third failed attempt, throws at once when the crawl4ai module is
\* missing, and never returns after a failure without a later success.
C29_ScrapeEndsWithinThreeAttempts ==
    /\ []ScrapeWithinContract
    /\ ScrapeActive ~> ScrapeOver

C29_Witness ==
    /\ scrape.status = "returned"
    /\ Len(scrape.outcomes) = 3
    /\ scrape.sleeps = <<1000, 2000>>
    /\ scrape.outcomes[3].markdown = Some(<<" ", "a", " ">>)
    /\ scrape.value = <<"a">>


(***************************************************************************)
(* The search dashboard: src/components/search-dashboard.tsx               *)
(***************************************************************************)

MaxRequests == 7

\* values of the memoised queryString the user can reach by typing and toggling,
\* but for its mode parameter, which is kept apart
QueryStrings == {"q=&page=1", "q=a&page=1", "q=a&tags=ai&page=1"}

Modes == {"keyword", "semantic"}

Pending(requests) == {i \in 1..Len(requests) : requests[i].status = "pending"}

\* fetch(...) of the search effect and of the analytics effect: the request is
\* on its way, nothing remembers that an older one is still pending
SearchRequest(mode, queryString) ==
    [effect |-> "search", mode |-> mode, queryString |-> queryString, status |-> "pending"]

AnalyticsRequest(mode, queryString) ==
    [effect |-> "analytics", mode |-> mode, queryString |-> queryString, status |-> "pending"]

\* fetch("/api/facets") of the effect that runs on mount only
FacetsRequest == [effect |-> "facets", status |-> "pending"]

nothing == <<companies, company_embeddings, now, projectionCache, call, dirty, lastPoints,
             website_snapshots, sync, scrape>>

\* the component mounts: the three effects run once, in the order of the source
OpenDashboard ==
    /\ ~dashboard.open
    /\ \E mode \in Modes, queryString \in QueryStrings :
        dashboard' = [open |-> TRUE, mode |-> mode, queryString |-> queryString,
                      requests |-> <<FacetsRequest, SearchRequest(mode, queryString),
                                     AnalyticsRequest(mode, queryString)>>,
                      facets |-> 0, results |-> 0, error |-> NULL,
                      analytics |-> 0, analyticsError |-> NULL]
    /\ UNCHANGED nothing

\* the user edits the query or a filter: queryString changes, both effects run
ChangeQuery ==
    /\ dashboard.open
    /\ Len(dashboard.requests) + 2 <= MaxRequests
    /\ \E queryString \in QueryStrings \ {dashboard.queryString} :
        dashboard' = [dashboard EXCEPT
            !.queryString = queryString,
            !.requests = @ \o <<SearchRequest(dashboard.mode, queryString),
                                AnalyticsRequest(dashboard.mode, queryString)>>]
    /\ UNCHANGED nothing

\* the user switches between keyword and semantic: mode is a parameter of the
\* memoised queryString, so the search effect and the analytics effect both run
ChangeMode ==
    /\ dashboard.open
    /\ Len(dashboard.requests) + 2 <= MaxRequests
    /\ \E mode \in Modes \ {dashboard.mode} :
        dashboard' = [dashboard EXCEPT
            !.mode = mode,
            !.requests = @ \o <<SearchRequest(mode, dashboard.queryString),
                                AnalyticsRequest(mode, dashboard.queryString)>>]
    /\ UNCHANGED nothing

\* the .then / .catch chain of one fetch, whichever request it belongs to
onResponse(view, i, ok) ==
    LET settled == [view EXCEPT !.requests[i].status = IF ok THEN "ok" ELSE "error"]
    IN  IF view.requests[i].effect = "facets"
        THEN IF ok THEN [settled EXCEPT !.facets = i]
             ELSE [settled EXCEPT !.error = Some(i)]
        ELSE IF view.requests[i].effect = "search"
        THEN IF ok THEN [settled EXCEPT !.error = NULL, !.results = i]
             ELSE [settled EXCEPT !.error = Some(i)]
        ELSE IF ok THEN [settled EXCEPT !.analyticsError = NULL, !.analytics = i]
             ELSE [settled EXCEPT !.analyticsError = Some(i)]

\* a pending request is answered, by a payload or by an error, in any order
ResponseArrives ==
    /\ dashboard.open
    /\ \E i \in Pending(dashboard.requests), ok \in BOOLEAN :
        dashboard' = onResponse(dashboard, i, ok)
    /\ UNCHANGED nothing

NextDashboard == OpenDashboard \/ ChangeQuery \/ ChangeMode \/ ResponseArrives

SpecDashboard == InitIdle /\ [][NextDashboard]_vars

LatestOf(effect) ==
    CHOOSE i \in 1..Len(dashboard.requests) :
        /\ dashboard.requests[i].effect = effect
        /\ \A j \in 1..Len(dashboard.requests) :
              dashboard.requests[j].effect = effect => j <= i

\* C28: once every issued request has been answered, in whatever order, the
\* results and the error shown by the dashboard are those of the request issued
\* last (for the latest query string and mode), for search and for analytics.
C28_LatestRequestIsShown ==
    (dashboard.open /\ Pending(dashboard.requests) = {}) =>
        /\ IF dashboard.requests[LatestOf("search")].status = "ok"
           THEN dashboard.results = LatestOf("search") /\ dashboard.error = NULL
           ELSE dashboard.error = Some(LatestOf("search"))
        /\ IF dashboard.requests[LatestOf("analytics")].status = "ok"
           THEN dashboard.analytics = LatestOf("analytics") /\ dashboard.analyticsError = NULL
           ELSE dashboard.analyticsError = Some(LatestOf("analytics"))


(***************************************************************************)
(* The sync pipeline: src/scripts/sync-yc.ts, the sync-scrape, sync-embed  *)
(* and compare scripts of src/scripts/test-crawl4ai-compare.ts and the     *)
(* crawl4ai sample script of src/unnamed/part_006.                         *)
(*                                                                         *)
(* Every run of a script is a process of its own, and nothing keeps two    *)
(* of them, of one script or of different ones, from running at once.  A   *)
(* step is one SQL statement (or one transaction) of one process, with the *)
(* computation of that process that leads up to it: a network call that    *)
(* settles, a hash, a comparison.  Between two statements of a process     *)
(* any other process can take steps.  Inside a process JavaScript runs a   *)
(* task from one await to the next without letting another task in.        *)
(*                                                                         *)
(* A markdown text is the sequence of its pieces of 10,000 characters, the *)
(* last one possibly shorter; the scrapers trim what they return, so no    *)
(* piece is blank.  A website and a batch are character sequences.         *)
(***************************************************************************)

MaxPipelineCompanies == 2

\* runs of scripts in one behaviour when they follow one another
MaxRuns == 5

\* runs of scripts in one behaviour when some of them overlap
MaxSharedRuns == 3

\* processes running at the same time
MaxRunning == 2

\* sha256(text): a digest, never the empty text <<>> and one to one on the texts used
sha256(text) == <<"sha256", text>>

RECURSIVE SqlTrimStart(_)
SqlTrimStart(text) ==
    IF text # <<>> /\ Head(text) = " " THEN SqlTrimStart(Tail(text)) ELSE text

RECURSIVE SqlTrimEnd(_)
SqlTrimEnd(text) ==
    IF text # <<>> /\ text[Len(text)] = " "
    THEN SqlTrimEnd(SubSeq(text, 1, Len(text) - 1)) ELSE text

\* SQLite's TRIM(X): spaces, and nothing but spaces, are removed from both ends
SqlTrim(text) == SqlTrimEnd(SqlTrimStart(text))

\* what the YC API can return for a company id: the batch, which is part of
\* the embedding text, and the website, which only feeds company_hash
YcPayloads(id) ==
    IF id = 1
    THEN { [batch |-> Some(b), website |-> Some(<<"a">>)] :
              b \in {<<"W", "2", "6">>, <<"S", "2", "5">>} }
    ELSE { [batch |-> Some(<<"W", "2", "6">>), website |-> w] :
              w \in {NULL, Some(<<" ">>), Some(<<"\t">>), Some(<<"b">>)} }

\* markdown a scrape of a website can resolve with.  The first site serves
\* nothing, one short page, or a page of more than 10,000 characters that begins
\* like the short one; the second serves one page; an address that is no URL
\* serves nothing at all, every scrape of it is rejected
Contents(website) ==
    IF website = <<"a">> THEN {<<>>, <<"c1">>, <<"c1", "c2">>}
    ELSE IF website = <<"b">> THEN {<<"c1">>}
    ELSE {}

\* the values of --limit= drawn for a run; the limits they give leave every
\* candidate inside the concurrency of its script's pLimit
LimitArguments == {NULL, Some(1)}

\* parseLimitArg(defaultLimit) on a whole number, where Math.floor of the
\* compare and sample scripts changes nothing
parseLimitArg(argument, defaultLimit) ==
    IF IsNull(argument) THEN defaultLimit
    ELSE IF Val(argument) > 0 THEN Val(argument) ELSE defaultLimit

ACTIVE_SNAPSHOT_SOURCE == "crawl4ai"

\* Bookkeeping of the pass yc, scrape, embed: step names the script of the pass
\* that runs or has ended, changed holds the companies sync-yc or sync-scrape
\* found changed, sent those handed to the embedding provider.  Another run
\* that starts beside or between the three, a LIMIT that leaves candidates out
\* and a failure end the pass.
NoPass == [step |-> "none", changed |-> {}, sent |-> {}]

InitPipeline ==
    /\ companies = <<>>
    /\ company_embeddings = <<>>
    /\ website_snapshots = {}
    /\ sync = [procs |-> <<>>, pass |-> NoPass, runs |-> 0, shared |-> FALSE]
    /\ call = [op |-> "none"]
    /\ CacheIdle
    /\ dashboard = [open |-> FALSE]
    /\ scrape = [status |-> "none"]

aside == <<now, projectionCache, call, dirty, lastPoints, dashboard, scrape>>

Procs(script) == {p \in 1..Len(sync.procs) : sync.procs[p].script = script}

Without(procs, p) == SubSeq(procs, 1, p - 1) \o SubSeq(procs, p + 1, Len(procs))

\* The exploration is bounded in depth: a behaviour holds MaxRuns runs that
\* follow one another, or MaxSharedRuns runs of which MaxRunning overlap.
CanStart ==
    IF sync.procs = <<>> /\ ~sync.shared THEN sync.runs < MaxRuns
    ELSE sync.runs < MaxSharedRuns /\ Len(sync.procs) < MaxRunning

PassAtStart(script, covers, ended) ==
    IF sync.procs # <<>> \/ ~covers THEN NoPass
    ELSE IF script = "yc" THEN [NoPass EXCEPT !.step = "yc"]
    ELSE IF script = "scrape" /\ sync.pass.step = "yc done"
         THEN [sync.pass EXCEPT !.step = IF ended THEN "scrape done" ELSE "scrape"]
    ELSE IF script = "embed" /\ sync.pass.step = "scrape done"
         THEN [sync.pass EXCEPT !.step = IF ended THEN "embed done" ELSE "embed"]
    ELSE NoPass

PassAtEnd(script, failed) ==
    IF failed THEN NoPass
    ELSE IF script = "scrape" /\ sync.pass.step = "scrape"
         THEN [sync.pass EXCEPT !.step = "scrape done"]
    ELSE IF script = "embed" /\ sync.pass.step = "embed"
         THEN [sync.pass EXCEPT !.step = "embed done"]
    ELSE NoPass

\* a script has read its candidates and its tasks are under way
Started(proc, covers) ==
    [procs |-> Append(sync.procs, proc),
     pass |-> PassAtStart(proc.script, covers, FALSE),
     runs |-> sync.runs + 1,
     shared |-> sync.shared \/ sync.procs # <<>>]

\* a script has found no candidate and returned
Returned(script, covers) ==
    [sync EXCEPT !.pass = PassAtStart(script, covers, TRUE), !.runs = @ + 1,
                 !.shared = @ \/ sync.procs # <<>>]

\* a task that waits for the network
Waiting == {"scraping", "firecrawling", "crawling", "calling"}

\* a task that has returned
Settled == {"returned", "ok", "failed", "skipped"}

TasksAt(p, places) ==
    {i \in 1..Len(sync.procs[p].tasks) : sync.procs[p].tasks[i].at \in places}

\* the tasks of a process that can take its next step: the one that is between
\* two awaits; or else the first one that p-limit has not started yet; or
\* else any one whose network call settles
Current(p) ==
    IF TasksAt(p, Waiting \cup Settled \cup {"queued"}) # 1..Len(sync.procs[p].tasks)
    THEN (1..Len(sync.procs[p].tasks)) \ TasksAt(p, Waiting \cup Settled \cup {"queued"})
    ELSE IF TasksAt(p, {"queued"}) # {}
    THEN {i \in TasksAt(p, {"queued"}) : \A j \in TasksAt(p, {"queued"}) : i <= j}
    ELSE TasksAt(p, Waiting)

\* the tasks among them that are at one of the places
Ready(p, places) == Current(p) \cap TasksAt(p, places)

\* the upsert of sync-yc for one fetched company, from the hashes read before
YcUpsert(id, payload, existingHashById) ==
    LET companyHash == sha256(payload)
        isNew == id > Len(existingHashById)
        changed == isNew \/ existingHashById[id] # companyHash
    IN  [batch |-> payload.batch, website |-> payload.website, company_hash |-> companyHash,
         needs_scrape |-> IF isNew \/ changed THEN 1 ELSE 0,
         needs_embed |-> IF isNew \/ changed THEN 1 ELSE 0]

\* npm run sync:yc up to its transaction: the directory is fetched, which holds
\* the companies already stored and possibly new ones, and the stored hashes
\* are read
SyncYcReads ==
    /\ CanStart
    /\ \E n \in Len(companies)..MaxPipelineCompanies :
       \E fetched \in [1..n -> UNION {YcPayloads(id) : id \in 1..MaxPipelineCompanies}] :
          /\ \A id \in 1..n : fetched[id] \in YcPayloads(id)
          /\ sync' = Started(
                [script |-> "yc", tasks |-> <<>>,
                 rows |-> [id \in 1..n |->
                             YcUpsert(id, fetched[id],
                                      [i \in 1..Len(companies) |-> companies[i].company_hash])]],
                TRUE)
    /\ UNCHANGED <<companies, company_embeddings, website_snapshots, aside>>

\* writeTransaction(): every fetched company is upserted, flags included
SyncYcWrites ==
    /\ \E p \in Procs("yc") :
        LET rows == sync.procs[p].rows
            n == Max(Len(rows), Len(companies))
        IN  /\ companies' = [id \in 1..n |-> IF id <= Len(rows) THEN rows[id] ELSE companies[id]]
            /\ company_embeddings' =
                  [id \in 1..n |-> IF id <= Len(companies) THEN company_embeddings[id] ELSE NULL]
            /\ sync' = [sync EXCEPT
                  !.procs = Without(@, p),
                  !.pass = IF @.step = "yc"
                           THEN [step |-> "yc done", sent |-> {},
                                 changed |-> {id \in 1..Len(rows) : rows[id].needs_embed = 1}]
                           ELSE NoPass]
    /\ UNCHANGED <<website_snapshots, aside>>

\* website IS NOT NULL AND TRIM(website) != ''
HasWebsite(id) ==
    /\ ~IsNull(companies[id].website)
    /\ SqlTrim(Val(companies[id].website)) # <<>>

\* INSERT INTO website_snapshots ... ON CONFLICT(company_id, source) DO UPDATE
UpsertSnapshot(snapshots, row) ==
    {s \in snapshots : ~(s.company_id = row.company_id /\ s.source = row.source)} \cup {row}

SnapshotsOf(id, source) ==
    {s \in website_snapshots : s.company_id = id /\ s.source = source}

\* SELECT content_hash FROM website_snapshots WHERE company_id = @id AND source = @source
PreviousHash(id, source) ==
    IF SnapshotsOf(id, source) = {} THEN NULL
    ELSE Some((CHOOSE s \in SnapshotsOf(id, source) : TRUE).content_hash)

\* ... WHERE needs_scrape = 1 AND website IS NOT NULL AND TRIM(website) != ''
\* ORDER BY id ASC LIMIT @limit
ScrapeCandidates(limit) ==
    Slice(SelectIdx(1, Len(companies),
                    [id \in 1..Len(companies) |->
                        companies[id].needs_scrape = 1 /\ HasWebsite(id)]),
          0, limit)

\* a scrape task up to its await: candidate.website?.trim(), if (!website) return
ScrapeTask(id) ==
    [id |-> id, website |-> Trim(Val(companies[id].website)),
     at |-> IF Trim(Val(companies[id].website)) = <<>> THEN "returned" ELSE "scraping"]

\* npm run sync:scrape up to Promise.all: the candidates are read once and
\* every task (at most 8 at a time) starts its scrape
StartSyncScrape ==
    /\ CanStart
    /\ \E argument \in LimitArguments :
        LET candidates == ScrapeCandidates(parseLimitArg(argument, 500))
            covers == Len(candidates) = Len(ScrapeCandidates(Len(companies)))
        IN  sync' = IF candidates = <<>> THEN Returned("scrape", covers)
                    ELSE Started([script |-> "scrape",
                                  tasks |-> [i \in 1..Len(candidates) |->
                                                ScrapeTask(candidates[i])]],
                                 covers)
    /\ UNCHANGED <<companies, company_embeddings, website_snapshots, aside>>

\* scrapeWebsiteMarkdown resolves; the task hashes the markdown and reads the
\* stored hash
ScrapeTaskReadsPrevious ==
    /\ \E p \in Procs("scrape") :
       \E i \in Ready(p, {"scraping"}) :
       \E markdown \in Contents(sync.procs[p].tasks[i].website) :
        LET id == sync.procs[p].tasks[i].id
            previous == PreviousHash(id, ACTIVE_SNAPSHOT_SOURCE)
            contentChanged == IsNull(previous) \/ Val(previous) # sha256(markdown)
        IN  sync' = [sync EXCEPT
               !.procs[p].tasks[i] = [id |-> id, at |-> "hashed", markdown |-> markdown,
                                      contentChanged |-> contentChanged],
               !.pass.changed = IF contentChanged /\ sync.pass.step = "scrape"
                                THEN @ \cup {id} ELSE @]
    /\ UNCHANGED <<companies, company_embeddings, website_snapshots, aside>>

\* upsertSnapshot.run of the try block
ScrapeTaskStores ==
    /\ \E p \in Procs("scrape") :
       \E i \in Ready(p, {"hashed"}) :
        LET task == sync.procs[p].tasks[i]
        IN  /\ website_snapshots' = UpsertSnapshot(website_snapshots,
                  [company_id |-> task.id, source |-> ACTIVE_SNAPSHOT_SOURCE,
                   content_markdown |-> task.markdown, content_hash |-> sha256(task.markdown),
                   error |-> NULL])
            /\ sync' = [sync EXCEPT !.procs[p].tasks[i].at = "stored"]
    /\ UNCHANGED <<companies, company_embeddings, aside>>

\* completeSuccess.run
ScrapeTaskCompletes ==
    /\ \E p \in Procs("scrape") :
       \E i \in Ready(p, {"stored"}) :
        LET task == sync.procs[p].tasks[i]
        IN  /\ companies' = [companies EXCEPT
                  ![task.id].needs_scrape = 0,
                  ![task.id].needs_embed = IF task.contentChanged THEN 1 ELSE 0]
            /\ sync' = [sync EXCEPT !.procs[p].tasks[i] = [id |-> task.id, at |-> "ok"]]
    /\ UNCHANGED <<company_embeddings, website_snapshots, aside>>

\* scrapeWebsiteMarkdown rejects after its attempts: upsertSnapshot.run of the
\* catch block
ScrapeTaskFails ==
    /\ \E p \in Procs("scrape") :
       \E i \in Ready(p, {"scraping"}) :
        LET task == sync.procs[p].tasks[i]
        IN  /\ website_snapshots' = UpsertSnapshot(website_snapshots,
                  [company_id |-> task.id, source |-> ACTIVE_SNAPSHOT_SOURCE,
                   content_markdown |-> <<>>, content_hash |-> <<>>,
                   error |-> Some("scrape failed")])
            /\ sync' = [sync EXCEPT !.procs[p].tasks[i] = [id |-> task.id, at |-> "recording"]]
    /\ UNCHANGED <<companies, company_embeddings, aside>>

\* failedScrape.run
ScrapeTaskMarksFailed ==
    /\ \E p \in Procs("scrape") :
       \E i \in Ready(p, {"recording"}) :
        LET task == sync.procs[p].tasks[i]
        IN  /\ companies' = [companies EXCEPT ![task.id].needs_scrape = 1]
            /\ sync' = [sync EXCEPT !.procs[p].tasks[i].at = "failed"]
    /\ UNCHANGED <<company_embeddings, website_snapshots, aside>>

\* buildEmbeddingText(candidate): of the YC fields the batch, and the first
\* 10,000 characters of the joined content_markdown ?? ""
buildEmbeddingText(candidate) ==
    [batch |-> candidate.batch,
     websiteContent |-> Slice(IF IsNull(candidate.content_markdown) THEN <<>>
                              ELSE Val(candidate.content_markdown), 0, 1)]

\* FROM companies c LEFT JOIN website_snapshots s ON s.company_id = c.id for one
\* company: a row per snapshot, in the order the scan of website_snapshots
\* meets them, or one row with NULL content
JoinedContents(id) ==
    IF {s \in website_snapshots : s.company_id = id} = {} THEN {<<NULL>>}
    ELSE {[k \in DOMAIN scan |-> Some(scan[k].content_markdown)] :
             scan \in Scans({s \in website_snapshots : s.company_id = id})}

RECURSIVE EmbedCandidatesFrom(_)
\* ... WHERE c.needs_embed = 1 ORDER BY c.id ASC: the lists the statement can
\* return, before its LIMIT
EmbedCandidatesFrom(id) ==
    IF id > Len(companies) THEN {<<>>}
    ELSE IF companies[id].needs_embed # 1 THEN EmbedCandidatesFrom(id + 1)
    ELSE {[k \in DOMAIN contents |->
              [id |-> id, batch |-> companies[id].batch, content_markdown |-> contents[k]]]
          \o later : contents \in JoinedContents(id), later \in EmbedCandidatesFrom(id + 1)}

\* an embed task as p-limit holds it before it runs
EmbedTask(candidate) ==
    [id |-> candidate.id, at |-> "queued",
     embeddingText |-> buildEmbeddingText(candidate),
     sourceHash |-> sha256(buildEmbeddingText(candidate))]

\* npm run sync:embed up to Promise.all: the candidates are read once, within
\* LIMIT @limit joined rows
StartSyncEmbed ==
    /\ CanStart
    /\ \E argument \in LimitArguments :
       \E all \in EmbedCandidatesFrom(1) :
        LET candidates == Slice(all, 0, parseLimitArg(argument, 500))
        IN  sync' = IF candidates = <<>> THEN Returned("embed", all = <<>>)
                    ELSE Started([script |-> "embed",
                                  tasks |-> [i \in 1..Len(candidates) |->
                                                EmbedTask(candidates[i])]],
                                 Len(candidates) = Len(all))
    /\ UNCHANGED <<companies, company_embeddings, website_snapshots, aside>>

\* a task starts: it reads the stored source_hash and, when that is another
\* one or none, calls the provider
EmbedTaskReadsExisting ==
    /\ \E p \in Procs("embed") :
       \E i \in Ready(p, {"queued"}) :
        LET task == sync.procs[p].tasks[i]
            existing == company_embeddings[task.id]
            same == ~IsNull(existing) /\ Val(existing).source_hash = task.sourceHash
        IN  sync' = [sync EXCEPT
               !.procs[p].tasks[i].at = IF same THEN "skipping" ELSE "calling",
               !.pass.sent = IF ~same /\ sync.pass.step = "embed"
                             THEN @ \cup {task.id} ELSE @]
    /\ UNCHANGED <<companies, company_embeddings, website_snapshots, aside>>

\* markEmbedded.run of a task whose text is the one embedded already
EmbedTaskSkips ==
    /\ \E p \in Procs("embed") :
       \E i \in Ready(p, {"skipping"}) :
        LET task == sync.procs[p].tasks[i]
        IN  /\ companies' = [companies EXCEPT ![task.id].needs_embed = 0]
            /\ sync' = [sync EXCEPT !.procs[p].tasks[i].at = "skipped"]
    /\ UNCHANGED <<company_embeddings, website_snapshots, aside>>

\* openai.embeddings.create resolves: upsertEmbedding.run
EmbedTaskStores ==
    /\ \E p \in Procs("embed") :
       \E i \in Ready(p, {"calling"}) :
        LET task == sync.procs[p].tasks[i]
        IN  /\ company_embeddings' = [company_embeddings EXCEPT ![task.id] =
                  Some([vector |-> [embeddingOf |-> task.embeddingText],
                        source_hash |-> task.sourceHash])]
            /\ sync' = [sync EXCEPT !.procs[p].tasks[i].at = "stored"]
    /\ UNCHANGED <<companies, website_snapshots, aside>>

\* markEmbedded.run after the upsert
EmbedTaskMarks ==
    /\ \E p \in Procs("embed") :
       \E i \in Ready(p, {"stored"}) :
        LET task == sync.procs[p].tasks[i]
        IN  /\ companies' = [companies EXCEPT ![task.id].needs_embed = 0]
            /\ sync' = [sync EXCEPT !.procs[p].tasks[i].at = "ok"]
    /\ UNCHANGED <<company_embeddings, website_snapshots, aside>>

\* openai.embeddings.create rejects: Promise.all rejects and main().catch exits
EmbedTaskFails ==
    /\ \E p \in Procs("embed") :
       \E i \in Ready(p, {"calling"}) :
          sync' = [sync EXCEPT !.procs = Without(@, p), !.pass = NoPass]
    /\ UNCHANGED <<companies, company_embeddings, website_snapshots, aside>>

\* c.batch LIKE 'W26%' OR c.batch LIKE 'S26%' OR c.batch LIKE '%2026%'
Is2026Batch(id) ==
    /\ ~IsNull(companies[id].batch)
    /\ \/ Like(Val(companies[id].batch), <<"W", "2", "6", "%">>)
       \/ Like(Val(companies[id].batch), <<"S", "2", "6", "%">>)
       \/ Like(Val(companies[id].batch), <<"%", "2", "0", "2", "6", "%">>)

\* the rows of the sample script's query and of the compare script's second
\* one: a website that is not blank, a batch of 2026
SampleCandidates ==
    {id \in 1..Len(companies) : HasWebsite(id) /\ Is2026Batch(id)}

\* the rows of the compare script's first query: those with a firecrawl
\* snapshot whose content_markdown is not blank as well
CompareCandidates ==
    {id \in SampleCandidates :
        \E s \in SnapshotsOf(id, "firecrawl") : SqlTrim(s.content_markdown) # <<>>}

\* ORDER BY RANDOM() LIMIT @limit
RandomLimit(rows, limit) == {Slice(scan, 0, limit) : scan \in Scans(rows)}

\* a task of the compare script whose candidate came with its firecrawl content
CompareTask(id) ==
    [id |-> id, website |-> Val(companies[id].website), at |-> "queued",
     firecrawl |-> (CHOOSE s \in SnapshotsOf(id, "firecrawl") : TRUE).content_markdown]

\* the compare script up to its first query; when that returns no row the
\* second query is still to come
StartCompare ==
    /\ CanStart
    /\ \E argument \in LimitArguments :
       \E candidates \in RandomLimit(CompareCandidates, parseLimitArg(argument, 2)) :
          sync' = Started(
             IF candidates = <<>>
             THEN [script |-> "compare", tasks |-> <<>>, limit |-> parseLimitArg(argument, 2)]
             ELSE [script |-> "compare",
                   tasks |-> [i \in DOMAIN candidates |-> CompareTask(candidates[i])]],
             TRUE)
    /\ UNCHANGED <<companies, company_embeddings, website_snapshots, aside>>

\* the second query: companies of 2026 with a website, their firecrawl content
\* NULL, so that every task begins with scrapeWebsiteMarkdownFirecrawl; with no
\* row the script returns
CompareFallback ==
    /\ \E p \in Procs("compare") :
       \E candidates \in RandomLimit(SampleCandidates,
                                     IF sync.procs[p].tasks = <<>>
                                     THEN sync.procs[p].limit ELSE 0) :
          /\ sync.procs[p].tasks = <<>>
          /\ sync' = [sync EXCEPT !.procs =
                IF candidates = <<>> THEN Without(@, p)
                ELSE [@ EXCEPT ![p] =
                        [script |-> "compare",
                         tasks |-> [i \in DOMAIN candidates |->
                                      [id |-> candidates[i], at |-> "firecrawling",
                                       website |-> Val(companies[candidates[i]].website)]]]]]
    /\ UNCHANGED <<companies, company_embeddings, website_snapshots, aside>>

\* upsertSnapshot.run for source firecrawl: of the content the candidate came
\* with, or of what scrapeWebsiteMarkdownFirecrawl resolves with; the task
\* goes on to scrapeWebsiteMarkdown
CompareTaskStoresFirecrawl ==
    /\ \E p \in Procs("compare") :
       \E i \in Ready(p, {"queued", "firecrawling"}) :
       \E markdown \in IF sync.procs[p].tasks[i].at = "queued"
                       THEN {sync.procs[p].tasks[i].firecrawl}
                       ELSE Contents(sync.procs[p].tasks[i].website) :
          /\ website_snapshots' = UpsertSnapshot(website_snapshots,
                [company_id |-> sync.procs[p].tasks[i].id, source |-> "firecrawl",
                 content_markdown |-> markdown, content_hash |-> sha256(markdown),
                 error |-> NULL])
          /\ sync' = [sync EXCEPT !.procs[p].tasks[i] =
                                      [id |-> sync.procs[p].tasks[i].id, at |-> "crawling",
                                       website |-> sync.procs[p].tasks[i].website]]
    /\ UNCHANGED <<companies, company_embeddings, aside>>

\* the sample script of part_006 up to Promise.all
StartSample ==
    /\ CanStart
    /\ \E argument \in LimitArguments :
       \E candidates \in RandomLimit(SampleCandidates, parseLimitArg(argument, 2)) :
          sync' = IF candidates = <<>> THEN Returned("sample", TRUE)
                  ELSE Started([script |-> "sample",
                                tasks |-> [i \in DOMAIN candidates |->
                                             [id |-> candidates[i], at |-> "crawling",
                                              website |-> Val(companies[candidates[i]].website)]]],
                               TRUE)
    /\ UNCHANGED <<companies, company_embeddings, website_snapshots, aside>>

\* In the compare and the sample script scrapeWebsiteMarkdown resolves; the
\* task hashes the markdown and reads the stored crawl4ai hash:
\* previousHash = ...?.content_hash ?? "", changed = previousHash !== hash
Crawl4aiTaskReadsPrevious ==
    /\ \E p \in Procs("compare") \cup Procs("sample") :
       \E i \in Ready(p, {"crawling"}) :
       \E markdown \in Contents(sync.procs[p].tasks[i].website) :
        LET id == sync.procs[p].tasks[i].id
            previous == PreviousHash(id, "crawl4ai")
            previousHash == IF IsNull(previous) THEN <<>> ELSE Val(previous)
        IN  sync' = [sync EXCEPT !.procs[p].tasks[i] =
                       [id |-> id, at |-> "hashed", markdown |-> markdown,
                        changed |-> previousHash # sha256(markdown)]]
    /\ UNCHANGED <<companies, company_embeddings, website_snapshots, aside>>

\* upsertSnapshot.run for source crawl4ai; an unchanged hash ends the task
Crawl4aiTaskStores ==
    /\ \E p \in Procs("compare") \cup Procs("sample") :
       \E i \in Ready(p, {"hashed"}) :
        LET task == sync.procs[p].tasks[i]
        IN  /\ website_snapshots' = UpsertSnapshot(website_snapshots,
                  [company_id |-> task.id, source |-> "crawl4ai",
                   content_markdown |-> task.markdown, content_hash |-> sha256(task.markdown),
                   error |-> NULL])
            /\ sync' = [sync EXCEPT !.procs[p].tasks[i] =
                          [id |-> task.id, at |-> IF task.changed THEN "stored" ELSE "ok"]]
    /\ UNCHANGED <<companies, company_embeddings, aside>>

\* markNeedsEmbed.run
Crawl4aiTaskMarks ==
    /\ \E p \in Procs("compare") \cup Procs("sample") :
       \E i \in Ready(p, {"stored"}) :
        LET task == sync.procs[p].tasks[i]
        IN  /\ companies' = [companies EXCEPT ![task.id].needs_embed = 1]
            /\ sync' = [sync EXCEPT !.procs[p].tasks[i].at = "ok"]
    /\ UNCHANGED <<company_embeddings, website_snapshots, aside>>

\* a scrape of the compare or the sample script rejects: Promise.all rejects
\* and main().catch exits, whatever the other task was waiting for
Crawl4aiTaskFails ==
    /\ \E p \in Procs("compare") \cup Procs("sample") :
       \E i \in Ready(p, {"firecrawling", "crawling"}) :
          sync' = [sync EXCEPT !.procs = Without(@, p)]
    /\ UNCHANGED <<companies, company_embeddings, website_snapshots, aside>>

\* Promise.all resolves and the script ends
FinishSync ==
    /\ \E p \in 1..Len(sync.procs) :
          /\ sync.procs[p].tasks # <<>>
          /\ TasksAt(p, Settled) = 1..Len(sync.procs[p].tasks)
          /\ sync' = [sync EXCEPT
                !.procs = Without(@, p),
                !.pass = PassAtEnd(sync.procs[p].script, TasksAt(p, {"failed"}) # {})]
    /\ UNCHANGED <<companies, company_embeddings, website_snapshots, aside>>

NextPipeline ==
    \/ SyncYcReads \/ SyncYcWrites
    \/ StartSyncScrape \/ ScrapeTaskReadsPrevious \/ ScrapeTaskStores \/ ScrapeTaskCompletes
    \/ ScrapeTaskFails \/ ScrapeTaskMarksFailed
    \/ StartSyncEmbed \/ EmbedTaskReadsExisting \/ EmbedTaskSkips \/ EmbedTaskStores
    \/ EmbedTaskMarks \/ EmbedTaskFails
    \/ StartCompare \/ CompareFallback \/ CompareTaskStoresFirecrawl \/ StartSample
    \/ Crawl4aiTaskReadsPrevious \/ Crawl4aiTaskStores \/ Crawl4aiTaskMarks
    \/ Crawl4aiTaskFails \/ FinishSync

SpecPipeline == InitPipeline /\ [][NextPipeline]_vars


(***************************************************************************)
(* Properties of the sync pipeline                                         *)
(***************************************************************************)

\* the hashes of the texts sync-embed would build for the company now
CurrentSourceHashes(id) ==
    UNION {{sha256(buildEmbeddingText([batch |-> companies[id].batch,
                                       content_markdown |-> contents[k]])) :
               k \in DOMAIN contents} : contents \in JoinedContents(id)}

\* C22: after sync:yc, sync:scrape and sync:embed have run in this order with
\* every scrape and every embedding call successful, every company whose YC data
\* or website content changed in the pass has an embedding whose source_hash is
\* the hash of its current embedding text, every needs_embed flag is 0, and no
\* unchanged company was sent to the embedding provider.
C22_FullPassEmbedsEveryChange ==
    (sync.procs = <<>> /\ sync.pass.step = "embed done") =>
        \A id \in 1..Len(companies) :
            /\ companies[id].needs_embed = 0
            /\ id \in sync.pass.changed =>
                  /\ ~IsNull(company_embeddings[id])
                  /\ Val(company_embeddings[id]).source_hash \in CurrentSourceHashes(id)
            /\ id \notin sync.pass.changed => id \notin sync.pass.sent

\* completeSuccess.run of a scrape task of the company is this step
ScrapeSucceeds(id) ==
    \E p \in Procs("scrape") :
    \E i \in 1..Len(sync.procs[p].tasks) :
        /\ sync.procs[p].tasks[i].id = id
        /\ sync.procs[p].tasks[i].at = "stored"
        /\ sync' = [sync EXCEPT !.procs[p].tasks[i] = [id |-> id, at |-> "ok"]]

\* C23: a company with a website that has needs_scrape = 1 keeps the flag until
\* a scrape of it succeeds, whatever sync:yc and sync:scrape runs happen, and
\* sync:yc never clears a needs_embed flag that is 1.
C23_FlagsStayUntilWorkIsDone ==
    [][\A id \in 1..Len(companies) :
          /\ (HasWebsite(id) /\ companies[id].needs_scrape = 1
                /\ companies'[id].needs_scrape = 0) => ScrapeSucceeds(id)
          /\ (companies[id].needs_embed = 1 /\ companies'[id].needs_embed = 0)
                => ~SyncYcWrites]_vars

\* the scrape of the task fails in this step
ScrapeFails(p, i) ==
    /\ sync.procs[p].tasks[i].at = "scraping"
    /\ sync' = [sync EXCEPT !.procs[p].tasks[i] =
                            [id |-> sync.procs[p].tasks[i].id, at |-> "recording"]]

\* C24: a failed scrape leaves content_markdown and content_hash of the
\* company's stored snapshot as they were.
C24_FailedScrapeKeepsSnapshot ==
    [][\A p \in Procs("scrape") :
       \A i \in 1..Len(sync.procs[p].tasks) :
          ScrapeFails(p, i) =>
              \A old \in SnapshotsOf(sync.procs[p].tasks[i].id, ACTIVE_SNAPSHOT_SOURCE) :
                  \E new \in website_snapshots' :
                      /\ new.company_id = old.company_id /\ new.source = old.source
                      /\ new.content_markdown = old.content_markdown
                      /\ new.content_hash = old.content_hash]_vars

\* C25: a sync:embed run has exactly one task per company with needs_embed = 1,
\* so that once its tasks have ended the stored source_hash of each company is
\* the one its task computed, whatever the order of completion.
C25_OneEmbedTaskPerCompany ==
    \A p \in Procs("embed") :
        /\ \A i, j \in 1..Len(sync.procs[p].tasks) :
              sync.procs[p].tasks[i].id = sync.procs[p].tasks[j].id => i = j
        /\ TasksAt(p, Settled) = 1..Len(sync.procs[p].tasks) =>
              \A i \in TasksAt(p, {"ok"}) :
                  Val(company_embeddings[sync.procs[p].tasks[i].id]).source_hash
                      = sync.procs[p].tasks[i].sourceHash

============================================================================
